---- MODULE Spec2Model ----
(***************************************************************************)
(* Lottery Draw & Payout Engine of Gamble-Limited.                         *)
(*                                                                         *)
(* Two threads of control touch the lottery tables:                        *)
(*   "loop"  - the asyncio event loop, which runs one API handler at a     *)
(*             time (lottery_buy, lottery_draw_admin; neither awaits);     *)
(*   "sched" - the APScheduler worker running check_draw_execution         *)
(*             (one instance at a time), as LotteryScheduler.start sets    *)
(*             it up.                                                      *)
(* Every sqlite statement is committed on its own, so a handler is a       *)
(* sequence of atomic steps that the other thread may interleave with.     *)
(***************************************************************************)
EXTENDS Integers, Sequences, FiniteSets, TLC

\* ------------------------------------------------------------------ bounds
MaxMonths == 1
MaxTickets == 2
MaxDraws == 2
max_tickets_per_user == 1
MaxFlipHours == 40
MaxFlips == 1
MaxResponds == 3
MaxPlanHours == 200
MaxPlans == 2
MaxInterrupts == 1
MaxSold == 5500

\* ------------------------------------------------- configuration constants
ticket_price == 50
numbers_to_pick == 6
number_range_max == 49
initial_jackpot == 10000
draw_hour == 12
force_winner_after_months == 2
month_1_no_winner_boost == 50
contribution_percent == 40
jackpot_contribution_percent == 70
FRIDAY == 4
default_cash == 1000
hours_to_agree == 24
payment_hour == 12
lump_sum_percent == 50
installment_weeks == 52
installment_days == << "monday", "wednesday", "friday" >>

\* ---------------------------------------------------------------- amounts
\* An amount of money (a REAL column, a Python float) in exact arithmetic: the
\* pair << numerator, denominator >> in lowest terms, denominator >= 1.
RECURSIVE GCD(_, _)
GCD(a, b) == IF b = 0 THEN a ELSE GCD(b, a % b)

Fraction(n, d) == LET g == GCD(n, d) IN << n \div g, d \div g >>

\* the amount of n whole units
Whole(n) == << n, 1 >>

\* x + y
Plus(x, y) == Fraction(x[1] * y[2] + y[1] * x[2], x[2] * y[2])

\* n * x, n an integer
Times(n, x) == Fraction(n * x[1], x[2])

\* x < y and x <= y
Less(x, y) == x[1] * y[2] < y[1] * x[2]
LessEq(x, y) == x[1] * y[2] <= y[1] * x[2]

\* mutant: the quotient is cut down to whole units
truediv_floor(x, n) == Whole(x[1] \div (x[2] * n))

\* x / n, Python's true division, n an integer
truediv(x, n) == Fraction(x[1], x[2] * n)

\* how many times the amount y goes into the amount x
Count(x, y) == (x[1] * y[2]) \div (x[2] * y[1])

Users == {1, 2}
Threads == {"loop", "sched"}
None == "None"
Omitted == << >>

\* cash the users hold when the model starts: the users table's default for
\* user 1, less than a ticket costs for user 2
InitCash ==
  [u \in Users |-> IF u = 1 THEN Whole(default_cash) ELSE Whole(ticket_price - 10)]

\* what the callers send as numbers: a valid pick (unsorted) and one input
\* for each validation error
NumberInputs ==
  { << 6, 5, 4, 3, 2, 1 >>,
    << 1, 2, 3, 4, 5 >>,
    << 1, 2, 3, 4, 5, 5 >>,
    << 1, 2, 3, 4, 5, 50 >> }

\* outcomes of the random source that the model samples
WinningSamples == { << 1, 2, 3, 4, 5, 6 >>, << 1, 2, 3, 10, 11, 12 >> }
RandomSamples == { 25, 75 }

\* ---------------------------------------------------------------- calendar
\* A datetime is a number of hours since 2026-11-01 00:00 (a Sunday,
\* weekday() = 6) in the configured timezone.
Calendar ==
  << [year |-> 2026, month |-> 11, days |-> 30],
     [year |-> 2026, month |-> 12, days |-> 31],
     [year |-> 2027, month |-> 1,  days |-> 31],
     [year |-> 2027, month |-> 2,  days |-> 28],
     [year |-> 2027, month |-> 3,  days |-> 31] >>

RECURSIVE DaysBefore(_)
DaysBefore(i) == IF i <= 1 THEN 0 ELSE DaysBefore(i - 1) + Calendar[i - 1].days

MonthStart(i) == 24 * DaysBefore(i)

MonthIndex(t) ==
  CHOOSE i \in 1..Len(Calendar) :
    MonthStart(i) <= t /\ t < MonthStart(i) + 24 * Calendar[i].days

IndexOf(y, m) ==
  CHOOSE i \in 1..Len(Calendar) : Calendar[i].year = y /\ Calendar[i].month = m

\* datetime.weekday(): Monday = 0 ... Sunday = 6; hour 0 is a Sunday
weekday(t) == ((t \div 24) + 6) % 7

\* now.replace(day=1, hour=draw_hour, minute=.., second=0, microsecond=0)
first_day_of(t) == MonthStart(MonthIndex(t)) + draw_hour

\* mutant: the draw time itself still counts as not passed
get_next_draw_date_late(t) ==
  LET first_day == first_day_of(t)
      days_until_friday == (FRIDAY - weekday(first_day)) % 7
      first_friday == first_day + 24 * days_until_friday
      cur == Calendar[MonthIndex(t)]
      next_month ==
        IF cur.month = 12
        THEN MonthStart(IndexOf(cur.year + 1, 1)) + draw_hour
        ELSE MonthStart(IndexOf(cur.year, cur.month + 1)) + draw_hour
      next_days_until_friday == (FRIDAY - weekday(next_month)) % 7
  IN  IF t > first_friday
      THEN next_month + 24 * next_days_until_friday
      ELSE first_friday

get_next_draw_date(t) ==
  LET first_day == first_day_of(t)
      days_until_friday == (FRIDAY - weekday(first_day)) % 7
      first_friday == first_day + 24 * days_until_friday
      cur == Calendar[MonthIndex(t)]
      next_month ==
        IF cur.month = 12
        THEN MonthStart(IndexOf(cur.year + 1, 1)) + draw_hour
        ELSE MonthStart(IndexOf(cur.year, cur.month + 1)) + draw_hour
      next_days_until_friday == (FRIDAY - weekday(next_month)) % 7
  IN  IF t >= first_friday
      THEN next_month + 24 * next_days_until_friday
      ELSE first_friday

\* strftime("%Y-%m"): the year and month fields of the date
strftime_Ym(t) == << Calendar[MonthIndex(t)].year, Calendar[MonthIndex(t)].month >>

\* mutant: the year and month of the clock, not of the next draw
get_current_draw_id_of_now(t) == strftime_Ym(t)

get_current_draw_id(t) == strftime_Ym(get_next_draw_date(t))

\* the scheduled draw time of the period of the i-th calendar month
DrawTime(i) == get_next_draw_date(MonthStart(i))

DrawIds == { << Calendar[i].year, Calendar[i].month >> : i \in 1..Len(Calendar) }

\* clock readings the model samples: the hour before each scheduled draw and
\* the scheduled draw time itself
Instants == UNION { { DrawTime(i) - 1, DrawTime(i) } : i \in 1..MaxMonths }

\* ----------------------------------------------------------- pure functions
SeqToSet(s) == { s[i] : i \in 1..Len(s) }

RECURSIVE Insert(_, _)
Insert(x, s) ==
  IF s = << >> THEN << x >>
  ELSE IF x <= Head(s) THEN << x >> \o s
  ELSE << Head(s) >> \o Insert(x, Tail(s))

RECURSIVE sorted(_)
sorted(s) == IF s = << >> THEN << >> ELSE Insert(Head(s), sorted(Tail(s)))

\* mutant: zero passes the range test
validate_numbers_from_zero(numbers) ==
  IF Len(numbers) # numbers_to_pick
  THEN [valid |-> FALSE, error |-> "InvalidCount"]
  ELSE IF Cardinality(SeqToSet(numbers)) # Len(numbers)
  THEN [valid |-> FALSE, error |-> "Duplicate"]
  ELSE IF \E i \in 1..Len(numbers) : numbers[i] < 0 \/ numbers[i] > number_range_max
  THEN [valid |-> FALSE, error |-> "OutOfRange"]
  ELSE [valid |-> TRUE, error |-> None]

validate_numbers(numbers) ==
  IF Len(numbers) # numbers_to_pick
  THEN [valid |-> FALSE, error |-> "InvalidCount"]
  ELSE IF Cardinality(SeqToSet(numbers)) # Len(numbers)
  THEN [valid |-> FALSE, error |-> "Duplicate"]
  ELSE IF \E i \in 1..Len(numbers) : numbers[i] < 1 \/ numbers[i] > number_range_max
  THEN [valid |-> FALSE, error |-> "OutOfRange"]
  ELSE [valid |-> TRUE, error |-> None]

calculate_matches(ticket_numbers, winning_numbers) ==
  Cardinality(SeqToSet(ticket_numbers) \cap SeqToSet(winning_numbers))

\* the default tier table: a tier is "jackpot", "free_ticket" or a cash amount
prize_tiers ==
  [m \in {2, 3, 4, 5, 6} |->
     CASE m = 6 -> [tier |-> "jackpot", cash |-> 0]
       [] m = 5 -> [tier |-> "cash", cash |-> 5000]
       [] m = 4 -> [tier |-> "cash", cash |-> 500]
       [] m = 3 -> [tier |-> "cash", cash |-> 25]
       [] m = 2 -> [tier |-> "free_ticket", cash |-> 0]]

\* mutant: the free ticket carries the ticket price as its amount
calculate_prize_free_priced(matches, jackpot_amount) ==
  IF matches \notin DOMAIN prize_tiers
  THEN [prize_type |-> "none", amount |-> 0]
  ELSE IF prize_tiers[matches].tier = "jackpot"
  THEN [prize_type |-> "jackpot", amount |-> jackpot_amount]
  ELSE IF prize_tiers[matches].tier = "free_ticket"
  THEN [prize_type |-> "free_ticket", amount |-> ticket_price]
  ELSE [prize_type |-> "cash", amount |-> prize_tiers[matches].cash]

calculate_prize(matches, jackpot_amount) ==
  IF matches \notin DOMAIN prize_tiers
  THEN [prize_type |-> "none", amount |-> 0]
  ELSE IF prize_tiers[matches].tier = "jackpot"
  THEN [prize_type |-> "jackpot", amount |-> jackpot_amount]
  ELSE IF prize_tiers[matches].tier = "free_ticket"
  THEN [prize_type |-> "free_ticket", amount |-> 0]
  ELSE [prize_type |-> "cash", amount |-> prize_tiers[matches].cash]

\* mutant: the guarantee starts one month late
should_force_winner_late(no_winner_months) ==
  IF no_winner_months > force_winner_after_months THEN << TRUE, 100 >>
  ELSE IF no_winner_months = 1 THEN << TRUE, month_1_no_winner_boost >>
  ELSE << FALSE, 0 >>

\* mutant: the guaranteed month only gets the boosted probability
should_force_winner_boost_only(no_winner_months) ==
  IF no_winner_months >= 1 THEN << TRUE, month_1_no_winner_boost >>
  ELSE << FALSE, 0 >>

\* (should_force, force_probability in percent)
should_force_winner(no_winner_months) ==
  IF no_winner_months >= force_winner_after_months THEN << TRUE, 100 >>
  ELSE IF no_winner_months = 1 THEN << TRUE, month_1_no_winner_boost >>
  ELSE << FALSE, 0 >>

\* -------------------------------------------------------------------- state
VARIABLES
  now,        \* the wall clock
  cash,       \* users.cash, per user
  tickets,    \* lottery_tickets rows in insertion order (id = position)
  jackpot,    \* the lottery_jackpot row
  draws,      \* lottery_draws rows, per draw_id (status "none": no row)
  pc,         \* where each thread stands
  loc,        \* each thread's local variables
  paid,       \* per ticket id, how many times a draw credited it a prize
  ndraws,     \* number of perform_draw invocations so far
  pool_reset, \* whether some draw has reset the pool for a jackpot winner
  checked,    \* draw_ids whose scheduled time a whole draw-check tick has followed
  coin_flips,   \* lottery_coin_flips rows in insertion order (id = position)
  response,     \* what the last respond_to_coin_flip call returned, and to whom
  calls,        \* per user, a respond_to_coin_flip call in flight: position and locals
  installments, \* lottery_installments rows in insertion order (id = position)
  runner,       \* where the process_installments job stands, and its locals
  credits,      \* per installment id, how many times the job credited its owner
  transactions  \* the transactions rows of type lottery_win, in insertion order

vars == << now, cash, tickets, jackpot, draws, pc, loc, paid, ndraws,
           pool_reset, checked, coin_flips, response, calls, installments,
           runner,
           credits, transactions >>

\* the tables the draw and the purchase never touch
payout_vars == << coin_flips, response, calls, installments, runner, credits >>

\* the tables the tie-break and the installment job never touch
lottery_vars == << tickets, jackpot, draws, pc, loc, paid, ndraws, pool_reset,
                   checked >>

NoDraw ==
  [status |-> "none", winning_numbers |-> << >>, winners |-> << >>,
   jackpot_amount |-> 0, no_winner_streak |-> 0]

Blank ==
  [kind |-> "none", user |-> 0, numbers |-> << >>, draw_id |-> << >>,
   next_draw |-> 0, current_draw_id |-> << >>, tick_start |-> 0,
   winning_numbers |-> << >>,
   current_jackpot |-> 0, no_winner_months |-> 0,
   winners |-> << >>, jackpot_winners |-> << >>,
   current |-> [current_amount |-> 0, no_winner_months |-> 0],
   pre_completed |-> FALSE, error |-> None, failed |-> 0]

\* no respond_to_coin_flip call has returned yet
NoResponse ==
  [request_id |-> 0, user_id |-> 0, agreed |-> FALSE, n |-> 0,
   success |-> FALSE, error |-> None, status |-> None, winner_id |-> 0]

\* no respond_to_coin_flip call is in flight
NoCall ==
  [pc |-> "none", request_id |-> 0, agreed |-> FALSE, assigned |-> FALSE,
   status |-> None, winner_id |-> 0]

NoCalls == [u \in Users |-> NoCall]

\* the process_installments job is not running
Idle == [pc |-> "idle", pending |-> << >>, installment |-> << >>, error |-> None]

Init ==
  /\ now = DrawTime(1) - 1
  /\ cash = InitCash
  /\ tickets = << >>
  /\ jackpot = [current_amount |-> initial_jackpot, no_winner_months |-> 0]
  /\ draws = [d \in DrawIds |-> NoDraw]
  /\ pc = [p \in Threads |-> "idle"]
  /\ loc = [p \in Threads |-> Blank]
  /\ paid = << >>
  /\ ndraws = 0
  /\ pool_reset = FALSE
  /\ checked = {}
  /\ coin_flips = << >>
  /\ response = NoResponse
  /\ calls = NoCalls
  /\ installments = << >>
  /\ runner = Idle
  /\ credits = << >>
  /\ transactions = << >>

\* ------------------------------------------------------------ database reads
get_lottery_jackpot == jackpot

get_user_ticket_count(user_id, draw_id) ==
  Cardinality({ i \in 1..Len(tickets) :
                  tickets[i].user_id = user_id /\ tickets[i].draw_id = draw_id })

IsForDraw(draw_id, t) == t.draw_id = draw_id

get_all_tickets_for_draw(draw_id) ==
  LET Keep(t) == IsForDraw(draw_id, t) IN SelectSeq(tickets, Keep)

get_lottery_draw(draw_id) == draws[draw_id]

\* the cash balance lottery_buy compares with the price: the users.cash
\* column that Database.get_balance selects
get_balance(user_id) == cash[user_id]

\* UPDATE users SET cash = cash + ? WHERE id = ?: the cash column afterwards
update_balance(user_id, cash_delta) ==
  [cash EXCEPT ![user_id] = Plus(@, cash_delta)]

\* update_lottery_jackpot: the row it writes, from the row it read before
\* mutant: an amount given is applied as a withdrawal from the current amount
update_lottery_jackpot_amount_withdraw(current, amount, delta) ==
  IF delta # Omitted THEN current.current_amount + delta[1]
  ELSE IF amount # Omitted THEN amount[1] - current.current_amount
  ELSE current.current_amount

\* (an optional argument is << >> when omitted and << value >> when given)
update_lottery_jackpot_amount(current, amount, delta) ==
  IF delta # Omitted THEN current.current_amount + delta[1]
  ELSE IF amount # Omitted THEN amount[1]
  ELSE current.current_amount

update_lottery_jackpot(current, amount, delta, no_winner_months) ==
  [current_amount |-> update_lottery_jackpot_amount(current, amount, delta),
   no_winner_months |-> IF no_winner_months # Omitted THEN no_winner_months[1]
                        ELSE current.no_winner_months]

\* -------------------------------------------------------------------- clock
ClockAdvance ==
  /\ \E t \in Instants : t > now /\ now' = t
  /\ UNCHANGED << payout_vars, cash, transactions, tickets, jackpot, draws, pc, loc, paid, ndraws,
                  pool_reset, checked >>

\* --------------------------------------------------------------- lottery_buy
\* mutant: off by one, the limit itself is still allowed
TicketLimitReached_strict(count, limit) == count > limit

\* if count >= limit
TicketLimitReached(count, limit) == count >= limit

\* mutant: only an empty balance is refused
InsufficientCash_empty(balance, price) == LessEq(balance, Whole(0))

\* if balance["cash"] < price
InsufficientCash(balance, price) == Less(balance, Whole(price))

contribution(price) == (price * contribution_percent) \div 100

\* the error lottery_buy raises for this request, None if it goes through
lottery_buy_error(user_id, numbers, draw_id) ==
  IF ~ validate_numbers(numbers).valid THEN validate_numbers(numbers).error
  ELSE IF TicketLimitReached(get_user_ticket_count(user_id, draw_id),
                             max_tickets_per_user)
  THEN "QuotaExceeded"
  ELSE IF InsufficientCash(get_balance(user_id), ticket_price)
  THEN "InsufficientFunds"
  ELSE None

\* validation, ticket limit and balance check, then either the HTTPException
\* or the debit db.update_balance(user_id, cash_delta=-price) and the SELECT
\* of db.update_lottery_jackpot(delta=contribution).  (The other thread
\* writes no row these reads depend on except by adding cash, so they are
\* one step.)
lottery_buy_check(user_id, numbers) ==
  LET draw_id == get_current_draw_id(now)
      error == lottery_buy_error(user_id, numbers, draw_id)
      request == [Blank EXCEPT !.kind = "buy", !.user = user_id,
                               !.numbers = numbers, !.draw_id = draw_id,
                               !.error = error]
  IN  /\ pc["loop"] = "idle"
      /\ IF error # None
         THEN /\ pc' = [pc EXCEPT !["loop"] = "buy_raise"]
              /\ loc' = [loc EXCEPT !["loop"] = request]
              /\ UNCHANGED << cash, transactions >>
         ELSE /\ Len(tickets) < MaxTickets
              /\ cash' = update_balance(user_id, Whole(0 - ticket_price))
              /\ UNCHANGED transactions
              /\ loc' = [loc EXCEPT !["loop"] =
                           [request EXCEPT !.current = get_lottery_jackpot]]
              /\ pc' = [pc EXCEPT !["loop"] = "buy_jp_write"]
      /\ UNCHANGED << payout_vars, now, tickets, jackpot, draws, paid, ndraws,
                      pool_reset, checked >>

\* mutant: the refused purchase still pays its share into the pool
lottery_buy_raise_contributes ==
  /\ pc["loop"] = "buy_raise"
  /\ jackpot' = update_lottery_jackpot(get_lottery_jackpot, Omitted,
                                       << contribution(ticket_price) >>, Omitted)
  /\ pc' = [pc EXCEPT !["loop"] = "idle"]
  /\ loc' = [loc EXCEPT !["loop"] = Blank]
  /\ UNCHANGED << payout_vars, now, cash, transactions, tickets, draws, paid, ndraws,
                  pool_reset, checked >>

\* raise HTTPException(400, ...): the handler ends
lottery_buy_raise ==
  /\ pc["loop"] = "buy_raise"
  /\ pc' = [pc EXCEPT !["loop"] = "idle"]
  /\ loc' = [loc EXCEPT !["loop"] = Blank]
  /\ UNCHANGED << payout_vars, now, cash, transactions, tickets, jackpot, draws, paid, ndraws,
                  pool_reset, checked >>

\* INSERT INTO lottery_tickets
buy_lottery_ticket(user_id, numbers, draw_id) ==
  Append(tickets, [id |-> Len(tickets) + 1, user_id |-> user_id,
                   draw_id |-> draw_id, numbers |-> sorted(numbers)])

\* the UPDATE of db.update_lottery_jackpot(delta=contribution), then
\* db.buy_lottery_ticket(user_id, numbers, draw_id) and the return
lottery_buy_issue ==
  /\ pc["loop"] = "buy_jp_write"
  /\ jackpot' = update_lottery_jackpot(loc["loop"].current, Omitted,
                                       << contribution(ticket_price) >>, Omitted)
  /\ tickets' = buy_lottery_ticket(loc["loop"].user, loc["loop"].numbers,
                                   loc["loop"].draw_id)
  /\ paid' = Append(paid, 0)
  /\ pc' = [pc EXCEPT !["loop"] = "idle"]
  /\ loc' = [loc EXCEPT !["loop"] = Blank]
  /\ UNCHANGED << payout_vars, now, cash, transactions, draws, ndraws, pool_reset, checked >>

lottery_buy ==
  \/ \E u \in Users, n \in NumberInputs : lottery_buy_check(u, n)
  \/ lottery_buy_raise
  \/ lottery_buy_issue

\* sum of the pool contributions of the purchases that went through
contributed == Len(tickets) * contribution(ticket_price)

\* -------------------------------------------------------------- perform_draw
\* the sorted lists generate_winning_numbers can return, among the samples
generate_winning_numbers ==
  { w \in WinningSamples :
      /\ Len(w) = numbers_to_pick
      /\ \A i \in 1..Len(w) : w[i] \in 1..number_range_max
      /\ \A i \in 1..(Len(w) - 1) : w[i] < w[i + 1] }

winner_data(ticket, winning_numbers, current_jackpot) ==
  LET matches == calculate_matches(ticket.numbers, winning_numbers)
      prize_info == calculate_prize(matches, current_jackpot)
  IN  [user_id |-> ticket.user_id, ticket_id |-> ticket.id, matches |-> matches,
       prize_type |-> prize_info.prize_type, amount |-> prize_info.amount,
       note |-> ""]

forced_winner_data(ticket, current_jackpot) ==
  [user_id |-> ticket.user_id, ticket_id |-> ticket.id, matches |-> 6,
   prize_type |-> "jackpot", amount |-> current_jackpot,
   note |-> "Progressive guaranteed win"]

\* the cash perform_draw credits at once for a winner entry
immediate_credit(w) ==
  IF w.prize_type = "jackpot" THEN 0
  ELSE IF w.amount > 0 THEN w.amount
  ELSE IF w.prize_type = "free_ticket" THEN ticket_price
  ELSE 0

RECURSIVE draw_winners(_, _, _)
draw_winners(ts, winning_numbers, current_jackpot) ==
  IF ts = << >> THEN << >>
  ELSE LET w == winner_data(Head(ts), winning_numbers, current_jackpot)
           rest == draw_winners(Tail(ts), winning_numbers, current_jackpot)
       IN  IF w.prize_type # "none" THEN << w >> \o rest ELSE rest

RECURSIVE credited_to(_, _)
credited_to(user_id, ws) ==
  IF ws = << >> THEN 0
  ELSE (IF Head(ws).user_id = user_id THEN immediate_credit(Head(ws)) ELSE 0)
       + credited_to(user_id, Tail(ws))

\* mutant: the free-ticket prize is credited without a transactions row
RECURSIVE log_transaction_cash_only(_, _)
log_transaction_cash_only(ws, balances) ==
  IF ws = << >> THEN << >>
  ELSE LET w == Head(ws)
           after == [balances EXCEPT ![w.user_id] =
                       Plus(@, Whole(immediate_credit(w)))]
       IN  IF w.prize_type = "cash" /\ w.amount > 0
           THEN << [user_id |-> w.user_id, type |-> "lottery_win",
                    amount |-> w.amount, balance_after |-> after[w.user_id],
                    details |-> << "Lottery win", w.matches >>] >>
                \o log_transaction_cash_only(Tail(ws), after)
           ELSE log_transaction_cash_only(Tail(ws), after)

\* the rows db.log_transaction(user_id, "lottery_win", amount,
\* db.get_balance(user_id)["cash"], ...) inserts, one after each credit of
\* the winner loop, starting from the given balances
RECURSIVE log_transaction(_, _)
log_transaction(ws, balances) ==
  IF ws = << >> THEN << >>
  ELSE LET w == Head(ws)
           after == [balances EXCEPT ![w.user_id] =
                       Plus(@, Whole(immediate_credit(w)))]
       IN  IF immediate_credit(w) > 0
           THEN << [user_id |-> w.user_id, type |-> "lottery_win",
                    amount |-> immediate_credit(w),
                    balance_after |-> after[w.user_id],
                    details |-> IF w.prize_type = "free_ticket"
                                THEN << "Free ticket prize (cash equivalent)" >>
                                ELSE << "Lottery win", w.matches >>] >>
                \o log_transaction(Tail(ws), after)
           ELSE log_transaction(Tail(ws), after)

IsJackpot(w) == w.prize_type = "jackpot"

\* draw_id, tickets, winning numbers, jackpot_info, the winner loop with its
\* credits, and the forced winner
perform_draw_pay(p) ==
  /\ pc[p] = "pd_pay"
  /\ \E winning_numbers \in generate_winning_numbers, r \in RandomSamples,
        k \in 1..MaxTickets :
       LET draw_id == get_current_draw_id(now)
           ts == get_all_tickets_for_draw(draw_id)
           jackpot_info == get_lottery_jackpot
           current_jackpot == jackpot_info.current_amount
           no_winner_months == jackpot_info.no_winner_months
           organic == draw_winners(ts, winning_numbers, current_jackpot)
           organic_jackpot == SelectSeq(organic, IsJackpot)
           force == should_force_winner(no_winner_months)
           forced == /\ organic_jackpot = << >>
                     /\ force[1]
                     /\ ts # << >>
                     /\ r < force[2]
           winners == IF forced
                      THEN Append(organic, forced_winner_data(ts[k], current_jackpot))
                      ELSE organic
           jackpot_winners == SelectSeq(winners, IsJackpot)
       IN  /\ IF forced THEN k <= Len(ts) ELSE k = 1
           /\ cash' = [u \in Users |->
                         Plus(cash[u], Whole(credited_to(u, organic)))]
           /\ transactions' = transactions \o log_transaction(organic, cash)
           /\ paid' = [i \in 1..Len(paid) |->
                         IF \E j \in 1..Len(organic) :
                              /\ organic[j].ticket_id = i
                              /\ immediate_credit(organic[j]) > 0
                         THEN paid[i] + 1 ELSE paid[i]]
           /\ loc' = [loc EXCEPT ![p].draw_id = draw_id,
                                 ![p].pre_completed =
                                    (get_lottery_draw(draw_id).status = "completed"),
                                 ![p].winning_numbers = winning_numbers,
                                 ![p].current_jackpot = current_jackpot,
                                 ![p].no_winner_months = no_winner_months,
                                 ![p].winners = winners,
                                 ![p].jackpot_winners =
                                    [j \in 1..Len(jackpot_winners) |->
                                       jackpot_winners[j].user_id]]
  /\ pc' = [pc EXCEPT ![p] = "pd_jp_read"]
  /\ UNCHANGED << payout_vars, now, tickets, jackpot, draws, ndraws, pool_reset, checked >>

\* db.update_lottery_jackpot(...) of the draw: the SELECT
perform_draw_jackpot_read(p) ==
  /\ pc[p] = "pd_jp_read"
  /\ loc' = [loc EXCEPT ![p].current = get_lottery_jackpot]
  /\ pc' = [pc EXCEPT ![p] = "pd_jp_write"]
  /\ UNCHANGED << payout_vars, now, cash, transactions, tickets, jackpot, draws, paid, ndraws,
                  pool_reset, checked >>

new_streak(no_winner_months) == no_winner_months + 1

\* UPDATE lottery_draws ... WHERE draw_id = ?  (changes nothing without a row)
record_lottery_draw(draw_id, winning_numbers, winners, jackpot_amount, no_winner_streak) ==
  IF draws[draw_id].status = "none" THEN draws
  ELSE [draws EXCEPT ![draw_id] =
          [status |-> "completed", winning_numbers |-> winning_numbers,
           winners |-> winners, jackpot_amount |-> jackpot_amount,
           no_winner_streak |-> no_winner_streak]]

DrawTimeOf(draw_id) == DrawTime(IndexOf(draw_id[1], draw_id[2]))

\* the draw-check tick that ends now has followed these scheduled times
tick_done(p) ==
  IF p = "sched"
  THEN checked \cup { d \in DrawIds : DrawTimeOf(d) <= loc[p].tick_start }
  ELSE checked

\* the UPDATE of db.update_lottery_jackpot (reset or rollover), then
\* db.record_lottery_draw(...) and the return
perform_draw_commit(p) ==
  /\ pc[p] = "pd_jp_write"
  /\ IF loc[p].jackpot_winners # << >>
     THEN /\ jackpot' = update_lottery_jackpot(loc[p].current, << initial_jackpot >>,
                                               Omitted, << 0 >>)
          /\ pool_reset' = TRUE
     ELSE /\ jackpot' = update_lottery_jackpot(loc[p].current, Omitted, Omitted,
                                  << new_streak(loc[p].no_winner_months) >>)
          /\ UNCHANGED pool_reset
  /\ draws' = record_lottery_draw(loc[p].draw_id, loc[p].winning_numbers,
                 loc[p].winners, loc[p].current_jackpot,
                 IF loc[p].jackpot_winners = << >>
                 THEN loc[p].no_winner_months ELSE 0)
  /\ checked' = tick_done(p)
  /\ pc' = [pc EXCEPT ![p] = "idle"]
  /\ loc' = [loc EXCEPT ![p] = Blank]
  /\ UNCHANGED << payout_vars, now, cash, transactions, tickets, paid, ndraws >>

perform_draw(p) ==
  \/ perform_draw_pay(p)
  \/ perform_draw_jackpot_read(p)
  \/ perform_draw_commit(p)

\* POST /games/lottery/draw-admin by an admin: calls perform_draw()
lottery_draw_admin ==
  /\ pc["loop"] = "idle"
  /\ ndraws < MaxDraws
  /\ ndraws' = ndraws + 1
  /\ pc' = [pc EXCEPT !["loop"] = "pd_pay"]
  /\ loc' = [loc EXCEPT !["loop"] = [Blank EXCEPT !.kind = "draw"]]
  /\ UNCHANGED << payout_vars, now, cash, transactions, tickets, jackpot, draws, paid,
                  pool_reset, checked >>

\* ------------------------------------------------------ check_draw_execution
\* mutant: INSERT OR REPLACE, an existing row is written anew
create_lottery_draw_replace(draw_id) ==
  [draws EXCEPT ![draw_id] =
     [NoDraw EXCEPT !.status = "pending",
                    !.jackpot_amount = get_lottery_jackpot.current_amount]]

\* INSERT OR IGNORE INTO lottery_draws (draw_id, jackpot_amount, status)
create_lottery_draw(draw_id) ==
  IF draws[draw_id].status # "none" THEN draws
  ELSE [draws EXCEPT ![draw_id] =
          [NoDraw EXCEPT !.status = "pending",
                         !.jackpot_amount = get_lottery_jackpot.current_amount]]

\* next_draw = lottery_system.get_next_draw_date()
check_next_draw ==
  /\ pc["sched"] = "idle"
  /\ loc' = [loc EXCEPT !["sched"] =
               [Blank EXCEPT !.kind = "check", !.tick_start = now,
                             !.next_draw = get_next_draw_date(now)]]
  /\ pc' = [pc EXCEPT !["sched"] = "cd_record"]
  /\ UNCHANGED << payout_vars, now, cash, transactions, tickets, jackpot, draws, paid, ndraws,
                  pool_reset, checked >>

\* current_draw_id = lottery_system.get_current_draw_id();
\* draw_record = db.get_lottery_draw(...): return if completed, else make
\* sure the pending record exists
check_draw_record ==
  /\ pc["sched"] = "cd_record"
  /\ LET current_draw_id == get_current_draw_id(now)
         draw_record == get_lottery_draw(current_draw_id)
     IN  IF draw_record.status = "completed"
         THEN /\ pc' = [pc EXCEPT !["sched"] = "idle"]
              /\ checked' = tick_done("sched")
              /\ loc' = [loc EXCEPT !["sched"] = Blank]
              /\ UNCHANGED draws
         ELSE /\ draws' = create_lottery_draw(current_draw_id)
              /\ pc' = [pc EXCEPT !["sched"] = "cd_now"]
              /\ loc' = [loc EXCEPT !["sched"].current_draw_id = current_draw_id]
              /\ UNCHANGED checked
  /\ UNCHANGED << payout_vars, now, cash, transactions, tickets, jackpot, paid, ndraws, pool_reset >>

\* if now >= next_draw
IsTimeToRun(t, next_draw) == t >= next_draw

\* now = datetime.now(tz); if now >= next_draw: self.execute_draw(current_draw_id)
check_draw_time ==
  /\ pc["sched"] = "cd_now"
  /\ IF IsTimeToRun(now, loc["sched"].next_draw)
     THEN /\ ndraws < MaxDraws
          /\ ndraws' = ndraws + 1
          /\ pc' = [pc EXCEPT !["sched"] = "pd_pay"]
          /\ UNCHANGED << loc, checked >>
     ELSE /\ pc' = [pc EXCEPT !["sched"] = "idle"]
          /\ checked' = tick_done("sched")
          /\ loc' = [loc EXCEPT !["sched"] = Blank]
          /\ UNCHANGED ndraws
  /\ UNCHANGED << payout_vars, now, cash, transactions, tickets, jackpot, draws, paid,
                  pool_reset >>

check_draw_execution ==
  \/ check_next_draw
  \/ check_draw_record
  \/ check_draw_time

\* execute_draw(draw_id): lottery_system.perform_draw() on the scheduler thread
execute_draw == perform_draw("sched")

Next ==
  \/ ClockAdvance
  \/ lottery_buy
  \/ lottery_draw_admin
  \/ perform_draw("loop")
  \/ check_draw_execution
  \/ execute_draw

Spec == Init /\ [][Next]_vars

TypeOK ==
  /\ now \in Instants
  /\ \A u \in Users : cash[u] \in Int \X Nat
  /\ Len(tickets) <= MaxTickets
  /\ Len(paid) = Len(tickets)
  /\ ndraws \in 0..MaxDraws
  /\ pc \in [Threads -> {"idle", "buy_jp_write", "buy_raise", "pd_pay",
                         "pd_jp_read", "pd_jp_write", "cd_record", "cd_now"}]

\* -------------------------------------------------- a draw that is cut short
\* db.update_balance raises while perform_draw pays the winner of ticket
\* organic[f] (sqlite3.OperationalError, "database is locked"): the winners
\* before it have been paid; perform_draw has no handler, so the exception
\* leaves it and is logged by execute_draw or by lottery_draw_admin, which
\* answers 500.  The locals of the failed call are what the log shows.
update_balance_raise(p) ==
  /\ pc[p] = "pd_pay"
  /\ \E winning_numbers \in generate_winning_numbers :
       LET draw_id == get_current_draw_id(now)
           ts == get_all_tickets_for_draw(draw_id)
           current_jackpot == get_lottery_jackpot.current_amount
           organic == draw_winners(ts, winning_numbers, current_jackpot)
       IN  \E f \in 1..Len(organic) :
             LET before == SubSeq(organic, 1, f - 1)
             IN  /\ immediate_credit(organic[f]) > 0
                 /\ cash' = [u \in Users |->
                               Plus(cash[u], Whole(credited_to(u, before)))]
                 /\ transactions' = transactions \o log_transaction(before, cash)
                 /\ paid' = [i \in 1..Len(paid) |->
                               IF \E j \in 1..Len(before) :
                                    /\ before[j].ticket_id = i
                                    /\ immediate_credit(before[j]) > 0
                               THEN paid[i] + 1 ELSE paid[i]]
                 /\ loc' = [loc EXCEPT ![p] =
                              [Blank EXCEPT !.kind = "draw",
                                            !.draw_id = draw_id,
                                            !.winning_numbers = winning_numbers,
                                            !.current_jackpot = current_jackpot,
                                            !.winners = SubSeq(organic, 1, f),
                                            !.failed = organic[f].ticket_id,
                                            !.error = "Exception"]]
  /\ pc' = [pc EXCEPT ![p] = "idle"]
  /\ checked' = tick_done(p)
  /\ UNCHANGED << payout_vars, now, tickets, jackpot, draws, ndraws, pool_reset >>

\* mutant: the exception is not caught and ends the job for good
except_Exception_reraise == "crashed"

\* except Exception as e: logger.error(...): the job returns, and the
\* scheduler will call it again at its next tick
except_Exception == "idle"

\* a database statement of perform_draw raises before anything is written
\* for it, in a draw the scheduler runs: execute_draw logs the exception
execute_draw_raise ==
  /\ pc["sched"] \in {"pd_pay", "pd_jp_read", "pd_jp_write"}
  /\ pc' = [pc EXCEPT !["sched"] = except_Exception]
  /\ loc' = [loc EXCEPT !["sched"] =
               [Blank EXCEPT !.kind = "draw", !.error = "Exception"]]
  /\ checked' = tick_done("sched")
  /\ UNCHANGED << payout_vars, now, cash, transactions, tickets, jackpot, draws, paid, ndraws,
                  pool_reset >>

\* a database statement of check_draw_execution raises: it logs the exception
check_draw_execution_raise ==
  /\ pc["sched"] \in {"cd_record", "cd_now"}
  /\ pc' = [pc EXCEPT !["sched"] = except_Exception]
  /\ loc' = [loc EXCEPT !["sched"] =
               [Blank EXCEPT !.kind = "check", !.error = "Exception"]]
  /\ checked' = tick_done("sched")
  /\ UNCHANGED << payout_vars, now, cash, transactions, tickets, jackpot, draws, paid, ndraws,
                  pool_reset >>

\* the database as draws find it: both users hold the default cash of the
\* users table, and earlier draws without a jackpot winner have left the
\* streak anywhere up to the month of the guaranteed winner
DrawInit ==
  /\ now = DrawTime(1) - 1
  /\ cash = [u \in Users |-> Whole(default_cash)]
  /\ tickets = << >>
  /\ \E n \in 0..force_winner_after_months :
       jackpot = [current_amount |-> initial_jackpot, no_winner_months |-> n]
  /\ draws = [d \in DrawIds |-> NoDraw]
  /\ pc = [p \in Threads |-> "idle"]
  /\ loc = [p \in Threads |-> Blank]
  /\ paid = << >>
  /\ ndraws = 0
  /\ pool_reset = FALSE
  /\ checked = {}
  /\ coin_flips = << >>
  /\ response = NoResponse
  /\ calls = NoCalls
  /\ installments = << >>
  /\ runner = Idle
  /\ credits = << >>
  /\ transactions = << >>

\* purchases and admin-forced draws, one handler at a time
DrawNext ==
  \/ ClockAdvance
  \/ lottery_buy
  \/ lottery_draw_admin
  \/ perform_draw("loop")
  \/ update_balance_raise("loop")

DrawSpec == DrawInit /\ [][DrawNext]_vars

\* ------------------------------------------------------------ coin flip
\* users who may call the respond endpoint: the two players and a third account
Outsider == 3
Responders == Users \cup {Outsider}

\* how far the clock moves between two calls, in hours
FlipClockSteps == {12, 13}

\* time passes between two requests of the tie-break
CoinFlipClock ==
  /\ now < DrawTime(1) - 1 + MaxFlipHours
  /\ \E d \in FlipClockSteps : now' = now + d
  /\ UNCHANGED << cash, transactions, lottery_vars, coin_flips, response, calls, installments,
                  runner, credits >>

\* INSERT INTO lottery_coin_flips (draw_id, user1_id, user2_id, expires_at);
\* the other columns take their defaults (0 stands for a NULL winner_id)
create_coin_flip_request(draw_id, user1_id, user2_id) ==
  /\ Len(coin_flips) < MaxFlips
  /\ coin_flips' = Append(coin_flips,
        [draw_id |-> draw_id, user1_id |-> user1_id, user2_id |-> user2_id,
         user1_agreed |-> 0, user2_agreed |-> 0, winner_id |-> 0,
         expires_at |-> now + hours_to_agree, status |-> "pending"])
  /\ UNCHANGED << now, cash, transactions, lottery_vars, response, calls, installments, runner,
                  credits >>

\* 1 if agreed else -1
decision(agreed) == IF agreed THEN 1 ELSE 0 - 1

\* mutant: the status of the request is not looked at
respond_error_any_status(request_id, user_id) ==
  IF request_id \notin 1..Len(coin_flips) THEN "NotFound"
  ELSE IF now > coin_flips[request_id].expires_at THEN "Expired"
  ELSE IF user_id \notin {coin_flips[request_id].user1_id,
                          coin_flips[request_id].user2_id}
  THEN "NotAParty"
  ELSE None

\* mutant: the expiry time is not looked at
respond_error_no_expiry(request_id, user_id) ==
  IF request_id \notin 1..Len(coin_flips) THEN "NotFound"
  ELSE IF coin_flips[request_id].status # "pending" THEN "AlreadyResolved"
  ELSE IF user_id \notin {coin_flips[request_id].user1_id,
                          coin_flips[request_id].user2_id}
  THEN "NotAParty"
  ELSE None

\* mutant: anybody may answer
respond_error_any_user(request_id, user_id) ==
  IF request_id \notin 1..Len(coin_flips) THEN "NotFound"
  ELSE IF coin_flips[request_id].status # "pending" THEN "AlreadyResolved"
  ELSE IF now > coin_flips[request_id].expires_at THEN "Expired"
  ELSE None

\* the error of the checks that precede the agreement update, None if none
respond_error(request_id, user_id) ==
  IF request_id \notin 1..Len(coin_flips) THEN "NotFound"
  ELSE IF coin_flips[request_id].status # "pending" THEN "AlreadyResolved"
  ELSE IF now > coin_flips[request_id].expires_at THEN "Expired"
  ELSE IF user_id \notin {coin_flips[request_id].user1_id,
                          coin_flips[request_id].user2_id}
  THEN "NotAParty"
  ELSE None

\* UPDATE lottery_coin_flips SET user1_agreed / user2_agreed
record_decision(request, user_id, agreed) ==
  IF user_id = request.user1_id
  THEN [request EXCEPT !.user1_agreed = decision(agreed)]
  ELSE [request EXCEPT !.user2_agreed = decision(agreed)]

\* mutant: the request is resolved as soon as one player has answered
BothResponded_either(updated) ==
  updated.user1_agreed # 0 \/ updated.user2_agreed # 0

\* mutant: only two agreements count as both having responded
BothResponded_agreed(updated) ==
  updated.user1_agreed = 1 /\ updated.user2_agreed = 1

\* if updated["user1_agreed"] != 0 and updated["user2_agreed"] != 0
BothResponded(updated) ==
  updated.user1_agreed # 0 /\ updated.user2_agreed # 0

\* the row after the check whether both have responded; flip is the outcome
\* of rng.random_float() < 0.5
resolve(updated, flip) ==
  IF BothResponded(updated)
  THEN IF updated.user1_agreed = 1 /\ updated.user2_agreed = 1
       THEN [updated EXCEPT !.status = "completed",
                            !.winner_id = IF flip THEN updated.user1_id
                                          ELSE updated.user2_id]
       ELSE [updated EXCEPT !.status = "declined"]
  ELSE updated

\* UPDATE lottery_coin_flips SET status = 'expired'
MarkExpired(request) == [request EXCEPT !.status = "expired"]

\* POST /games/lottery/coinflip/respond: db.respond_to_coin_flip(request_id,
\* user_id, agreed), run to completion on the event loop
respond_to_coin_flip(request_id, user_id, agreed) ==
  LET error == respond_error(request_id, user_id)
      call == [request_id |-> request_id, user_id |-> user_id,
               agreed |-> agreed, n |-> response.n + 1]
      failure == [success |-> FALSE, error |-> error, status |-> None,
                  winner_id |-> 0]
  IN  /\ response.n < MaxResponds
      /\ \E flip \in BOOLEAN :
           IF error \in {"NotFound", "AlreadyResolved", "NotAParty"}
           THEN /\ response' = call @@ failure
                /\ UNCHANGED coin_flips
           ELSE IF error = "Expired"
           THEN /\ response' = call @@ failure
                /\ coin_flips' = [coin_flips EXCEPT ![request_id] = MarkExpired(@)]
           ELSE LET updated == record_decision(coin_flips[request_id], user_id, agreed)
                    resolved == resolve(updated, flip)
                IN  /\ coin_flips' = [coin_flips EXCEPT ![request_id] = resolved]
                    /\ response' = call @@
                          [success |-> TRUE, error |-> None,
                           status |-> resolved.status,
                           winner_id |-> resolved.winner_id]
      /\ UNCHANGED << now, cash, transactions, lottery_vars, calls, installments,
                      runner, credits >>

lottery_coinflip_respond ==
  \E request_id \in 1..MaxFlips, user_id \in Responders, agreed \in BOOLEAN :
    respond_to_coin_flip(request_id, user_id, agreed)

CoinFlipNext ==
  \/ CoinFlipClock
  \/ \E a \in Users : \E b \in Users \ {a} :
       create_coin_flip_request(get_current_draw_id(DrawTime(1) - 1), a, b)
  \/ lottery_coinflip_respond

CoinFlipSpec == Init /\ [][CoinFlipNext]_vars

\* --------------------------------------------- respond calls that interleave
\* respond_to_coin_flip run by one thread per caller, each on its own
\* connection (Database._local), one SQL statement at a time

\* calls in flight
InFlight == { u \in Users : calls[u].pc \notin {"none", "returned"} }

\* the call returns: what the caller is told
respond_return(u, status, winner_id, error) ==
  /\ calls' = [calls EXCEPT ![u].pc = "returned", ![u].status = status,
                            ![u].winner_id = winner_id]
  /\ response' = [request_id |-> calls[u].request_id, user_id |-> u,
                  agreed |-> calls[u].agreed, n |-> response.n + 1,
                  success |-> error = None, error |-> error,
                  status |-> status, winner_id |-> winner_id]

\* SELECT * FROM lottery_coin_flips WHERE id = ?, and the checks on the row
respond_select(u, request_id, agreed) ==
  LET error == respond_error(request_id, u)
      call == [NoCall EXCEPT !.request_id = request_id, !.agreed = agreed]
  IN  /\ calls[u].pc \in {"none", "returned"}
      /\ response.n + Cardinality(InFlight) < MaxResponds
      /\ IF error \in {"NotFound", "AlreadyResolved", "NotAParty"}
         THEN /\ calls' = [calls EXCEPT ![u] = [call EXCEPT !.pc = "returned",
                                                             !.status = error]]
              /\ response' = [request_id |-> request_id, user_id |-> u,
                              agreed |-> agreed, n |-> response.n + 1,
                              success |-> FALSE, error |-> error,
                              status |-> None, winner_id |-> 0]
         ELSE /\ calls' = [calls EXCEPT ![u] =
                   [call EXCEPT !.pc = IF error = "Expired" THEN "expire"
                                       ELSE "update"]]
              /\ UNCHANGED response
      /\ UNCHANGED << now, cash, transactions, lottery_vars, coin_flips,
                      installments, runner, credits >>

\* UPDATE lottery_coin_flips SET status = 'expired'; commit; return
respond_expire(u) ==
  /\ calls[u].pc = "expire"
  /\ coin_flips' = [coin_flips EXCEPT ![calls[u].request_id] = MarkExpired(@)]
  /\ respond_return(u, None, 0, "Expired")
  /\ UNCHANGED << now, cash, transactions, lottery_vars, installments, runner,
                  credits >>

\* UPDATE lottery_coin_flips SET user1_agreed / user2_agreed; commit
respond_update(u) ==
  /\ calls[u].pc = "update"
  /\ coin_flips' = [coin_flips EXCEPT ![calls[u].request_id] =
                      record_decision(@, u, calls[u].agreed)]
  /\ calls' = [calls EXCEPT ![u].pc = "check"]
  /\ UNCHANGED << now, cash, transactions, lottery_vars, response, installments,
                  runner, credits >>

\* the second SELECT and the check whether both have responded; the winner
\* is drawn here, before the UPDATE that stores it
respond_check(u) ==
  LET updated == coin_flips[calls[u].request_id]
  IN  /\ calls[u].pc = "check"
      /\ IF BothResponded(updated)
         THEN /\ \E flip \in BOOLEAN :
                   LET resolved == resolve(updated, flip)
                   IN  calls' = [calls EXCEPT
                                   ![u].pc = "resolve",
                                   ![u].status = resolved.status,
                                   ![u].winner_id = resolved.winner_id]
              /\ UNCHANGED response
         ELSE respond_return(u, "pending", 0, None)
      /\ UNCHANGED << now, cash, transactions, lottery_vars, coin_flips,
                      installments, runner, credits >>

\* UPDATE lottery_coin_flips SET status = 'completed', winner_id = ? or
\* SET status = 'declined'; commit; return
respond_resolve(u) ==
  /\ calls[u].pc = "resolve"
  /\ coin_flips' = [coin_flips EXCEPT ![calls[u].request_id] =
                      IF calls[u].status = "completed"
                      THEN [@ EXCEPT !.status = "completed",
                                     !.winner_id = calls[u].winner_id]
                      ELSE [@ EXCEPT !.status = "declined"]]
  /\ calls' = [calls EXCEPT ![u].pc = "returned",
                            ![u].assigned = calls[u].status = "completed"]
  /\ response' = [request_id |-> calls[u].request_id, user_id |-> u,
                  agreed |-> calls[u].agreed, n |-> response.n + 1,
                  success |-> TRUE, error |-> None,
                  status |-> calls[u].status, winner_id |-> calls[u].winner_id]
  /\ UNCHANGED << now, cash, transactions, lottery_vars, installments, runner,
                  credits >>

ConcurrentNext ==
  \/ CoinFlipClock
  \/ \E a \in Users : \E b \in Users \ {a} :
       create_coin_flip_request(get_current_draw_id(DrawTime(1) - 1), a, b)
  \/ \E u \in Users, request_id \in 1..MaxFlips, agreed \in BOOLEAN :
       respond_select(u, request_id, agreed)
  \/ \E u \in Users : respond_expire(u)
  \/ \E u \in Users : respond_update(u)
  \/ \E u \in Users : respond_check(u)
  \/ \E u \in Users : respond_resolve(u)

ConcurrentSpec == Init /\ [][ConcurrentNext]_vars

\* ------------------------------------------------------------ installments
\* a date column: << >> is NULL, << t >> the datetime t
NoDate == << >>

\* next_payment.replace(hour=12, minute=0, second=0, microsecond=0)
replace_noon(t) == (t \div 24) * 24 + payment_hour

\* create_lottery_installment: days_ahead, "Map to next M/W/F"
create_days_ahead == [w \in 0..6 |->
  CASE w = 0 -> 0 [] w = 1 -> 1 [] w = 2 -> 0 [] w = 3 -> 1
    [] w = 4 -> 0 [] w = 5 -> 2 [] w = 6 -> 1]

\* the first payment date of a plan created at t
first_payment_date(t) ==
  LET next_day == (weekday(t) + create_days_ahead[weekday(t)]) % 7
      day == IF next_day <= weekday(t) THEN next_day + 7 ELSE next_day
  IN  replace_noon(t + 24 * (day - weekday(t)))

\* process_installment_payment: days_ahead, "Days to next M/W/F"
days_ahead == [w \in 0..6 |->
  CASE w = 0 -> 2 [] w = 1 -> 1 [] w = 2 -> 2 [] w = 3 -> 1
    [] w = 4 -> 3 [] w = 5 -> 2 [] w = 6 -> 1]

\* the next payment date of a plan paid at t
next_payment_date(t) == replace_noon(t + 24 * days_ahead[weekday(t)])

\* the plans the model creates: owner, total_amount, num_payments
PlanInputs ==
  { [user_id |-> 1, total_amount |-> 300, num_payments |-> 2],
    [user_id |-> 2, total_amount |-> 100, num_payments |-> 1] }

\* how far the clock moves at once, in hours
PlanClockSteps == {1, 23, 48}

\* time passes
InstallmentClock ==
  /\ now < DrawTime(1) - 1 + MaxPlanHours
  /\ \E d \in PlanClockSteps : now' = now + d
  /\ UNCHANGED << cash, transactions, lottery_vars, coin_flips, response, calls, installments,
                  runner, credits >>

\* INSERT INTO lottery_installments (user_id, draw_id, total_amount,
\* per_payment, payments_remaining, next_payment_date); paid_amount is 0
create_lottery_installment(user_id, draw_id, total_amount, num_payments) ==
  /\ Len(installments) < MaxPlans
  /\ installments' = Append(installments,
        [user_id |-> user_id, draw_id |-> draw_id,
         total_amount |-> Whole(total_amount), paid_amount |-> Whole(0),
         per_payment |-> truediv(Whole(total_amount), num_payments),
         payments_remaining |-> num_payments,
         next_payment_date |-> << first_payment_date(now) >>])
  /\ credits' = Append(credits, << >>)
  /\ UNCHANGED << now, cash, transactions, lottery_vars, coin_flips, response, calls, runner >>

\* mutant: a plan is due from the day before its payment date
IsDue_early(installment, t) ==
  /\ installment.payments_remaining > 0
  /\ installment.next_payment_date # NoDate
  /\ installment.next_payment_date[1] <= t + 24

\* WHERE li.payments_remaining > 0 AND li.next_payment_date <= ?
IsDue(installment, t) ==
  /\ installment.payments_remaining > 0
  /\ installment.next_payment_date # NoDate
  /\ installment.next_payment_date[1] <= t

RECURSIVE due_from(_, _)
due_from(i, t) ==
  IF i > Len(installments) THEN << >>
  ELSE (IF IsDue(installments[i], t) THEN << i >> ELSE << >>) \o due_from(i + 1, t)

\* the ids of the rows get_pending_installments returns
get_pending_installments == due_from(1, now)

\* pending = db.get_pending_installments()
process_installments_start ==
  /\ runner.pc = "idle"
  /\ get_pending_installments # << >>
  /\ runner' = [Idle EXCEPT !.pc = "loop", !.pending = get_pending_installments]
  /\ UNCHANGED << now, cash, transactions, lottery_vars, coin_flips, response, calls, installments,
                  credits >>

\* what is left of the job after the payment of Head(pending)
runner_after ==
  IF Tail(runner.pending) = << >> THEN Idle
  ELSE [Idle EXCEPT !.pc = "loop", !.pending = Tail(runner.pending)]

\* process_installment_payment, first half: the SELECT of the row, the check
\* of payments_remaining and self.update_balance(user_id, cash_delta=per_payment)
process_installment_payment_credit ==
  /\ runner.pc = "loop"
  /\ LET installment == installments[Head(runner.pending)]
     IN  IF installment.payments_remaining <= 0
         THEN /\ runner' = runner_after
              /\ UNCHANGED << cash, transactions, credits >>
         ELSE /\ cash' = update_balance(installment.user_id,
                                         installment.per_payment)
              /\ UNCHANGED transactions
              /\ credits' = [credits EXCEPT ![Head(runner.pending)] =
                               Append(@, installment.next_payment_date)]
              /\ runner' = [runner EXCEPT !.pc = "credited",
                                          !.installment = << installment >>]
  /\ UNCHANGED << now, lottery_vars, coin_flips, response, calls, installments >>

\* mutant: the next payment date is left where it was
paid_row_same_date(installment, t) ==
  [installment EXCEPT
     !.paid_amount = Plus(installment.paid_amount, installment.per_payment),
     !.payments_remaining = installment.payments_remaining - 1]

\* mutant: the number of payments left is written back as it was read
paid_row_undiminished(installment, t) ==
  [installment EXCEPT
     !.paid_amount = Plus(installment.paid_amount, installment.per_payment),
     !.next_payment_date = << next_payment_date(t) >>]

\* the row the UPDATE writes, from the row read before the credit
paid_row(installment, t) ==
  LET new_paid == Plus(installment.paid_amount, installment.per_payment)
      new_remaining == installment.payments_remaining - 1
  IN  [installment EXCEPT
         !.paid_amount = new_paid,
         !.payments_remaining = new_remaining,
         !.next_payment_date = IF new_remaining > 0
                               THEN << next_payment_date(t) >> ELSE NoDate]

\* process_installment_payment, second half: UPDATE lottery_installments SET
\* paid_amount, payments_remaining, next_payment_date and the commit
process_installment_payment_update ==
  /\ runner.pc = "credited"
  /\ installments' = [installments EXCEPT ![Head(runner.pending)] =
                        paid_row(runner.installment[1], now)]
  /\ runner' = runner_after
  /\ UNCHANGED << now, cash, transactions, lottery_vars, coin_flips, response, calls, credits >>

process_installments ==
  \/ process_installments_start
  \/ process_installment_payment_credit
  \/ process_installment_payment_update

\* the process stops between the credit and the UPDATE and is started again
Interrupt ==
  /\ runner.pc = "credited"
  /\ Len(credits[Head(runner.pending)])
       - Count(runner.installment[1].paid_amount, runner.installment[1].per_payment)
     <= MaxInterrupts
  /\ runner' = Idle
  /\ UNCHANGED << now, cash, transactions, lottery_vars, coin_flips, response, calls, installments,
                  credits >>

\* process_installment_payment raises before it credits the plan at the head
\* of the list (its SELECT or update_balance fails): the exception leaves
\* the for loop and process_installments logs it
process_installments_raise ==
  /\ runner.pc = "loop"
  /\ runner' = [Idle EXCEPT !.pc = except_Exception, !.error = "Exception"]
  /\ UNCHANGED << now, cash, transactions, lottery_vars, coin_flips, response, calls, installments,
                  credits >>

\* the first payment date of a plan made at the first draw, and the one
\* after it
SchedulerInstants ==
  Instants \cup { first_payment_date(DrawTime(1)),
                  next_payment_date(first_payment_date(DrawTime(1))) }

\* time passes between two ticks of the scheduler
SchedulerClock ==
  /\ \E t \in SchedulerInstants : t > now /\ now' = t
  /\ UNCHANGED << cash, transactions, lottery_vars, coin_flips, response, calls, installments,
                  runner, credits >>

\* the two interval jobs of the scheduler, each of which may meet an exception
SchedulerNext ==
  \/ SchedulerClock
  \/ check_draw_execution
  \/ execute_draw
  \/ check_draw_execution_raise
  \/ execute_draw_raise
  \/ \E plan \in PlanInputs :
       create_lottery_installment(plan.user_id, get_current_draw_id(DrawTime(1) - 1),
                                  plan.total_amount, plan.num_payments)
  \/ process_installments
  \/ process_installments_raise

SchedulerSpec == Init /\ [][SchedulerNext]_vars

\* how much runs next to the scheduler's draw: tickets sold, tie-break
\* responses and plans
FrameTickets == 1
FrameResponds == 1
FramePlans == 1

\* the numbers both users ask for: user 1 can pay for them once, user 2 never
FrameNumbers == { << 6, 5, 4, 3, 2, 1 >> }

\* the draw times and the first payment date of a plan made at the first draw
FrameInstants == Instants \cup { first_payment_date(DrawTime(1)) }

\* time passes
FrameClock ==
  /\ \E t \in FrameInstants : t > now /\ now' = t
  /\ UNCHANGED << cash, transactions, lottery_vars, coin_flips, response, calls, installments,
                  runner, credits >>

\* every operation that could touch the pool: purchases that go through and
\* purchases that fail, the scheduler's checks and draws, and, once the draw
\* time has come, a tie-break with its responses and a payment plan with the
\* installment job
FrameNext ==
  \/ FrameClock
  \/ \E u \in Users, n \in FrameNumbers :
       /\ \/ Len(tickets) < FrameTickets
          \/ lottery_buy_error(u, n, get_current_draw_id(now)) # None
       /\ lottery_buy_check(u, n)
  \/ lottery_buy_raise
  \/ lottery_buy_issue
  \/ check_draw_execution
  \/ execute_draw
  \/ /\ now >= DrawTime(1)
     /\ create_coin_flip_request(get_current_draw_id(DrawTime(1) - 1), 1, 2)
  \/ response.n < FrameResponds /\ lottery_coinflip_respond
  \/ \E plan \in { q \in PlanInputs : q.num_payments = 1 } :
       /\ now >= DrawTime(1)
       /\ Len(installments) < FramePlans
       /\ create_lottery_installment(plan.user_id, get_current_draw_id(DrawTime(1) - 1),
                                     plan.total_amount, plan.num_payments)
  \/ process_installments

FrameSpec == Init /\ [][FrameNext]_vars

InstallmentNext ==
  \/ InstallmentClock
  \/ \E plan \in PlanInputs :
       create_lottery_installment(plan.user_id, get_current_draw_id(DrawTime(1) - 1),
                                  plan.total_amount, plan.num_payments)
  \/ process_installments

InstallmentSpec == Init /\ [][InstallmentNext]_vars

InterruptedNext ==
  \/ InstallmentClock
  \/ \E plan \in PlanInputs :
       create_lottery_installment(plan.user_id, get_current_draw_id(DrawTime(1) - 1),
                                  plan.total_amount, plan.num_payments)
  \/ process_installments
  \/ Interrupt

InterruptedSpec == Init /\ [][InterruptedNext]_vars

\* plans whose total does not divide into whole payments
UnevenPlanInputs ==
  { [user_id |-> 1, total_amount |-> 100, num_payments |-> 3],
    [user_id |-> 2, total_amount |-> 25, num_payments |-> 2] }

RoundingNext ==
  \/ InstallmentClock
  \/ \E plan \in UnevenPlanInputs :
       create_lottery_installment(plan.user_id, get_current_draw_id(DrawTime(1) - 1),
                                  plan.total_amount, plan.num_payments)
  \/ process_installments

RoundingSpec == Init /\ [][RoundingNext]_vars

\* the interval job of the scheduler fires again and again, and a run that
\* has started walks its list to the end
FairInstallmentSpec ==
  Init /\ [][InstallmentNext]_vars /\ WF_vars(process_installments)

\* ------------------------------------------------------ the draw calendar
\* the hours of the calendar whose next draw still lies in it
CalendarHours == 0..(MonthStart(Len(Calendar)) - 1)

\* how far the clock moves between two requests, in hours: an hour, a week,
\* five weeks
CalendarSteps == {1, 168, 840}

\* GET /games/lottery/info: the pool, next_draw and draw_id of the answer
lottery_info ==
  /\ pc["loop"] = "idle"
  /\ loc' = [loc EXCEPT !["loop"] =
               [Blank EXCEPT !.kind = "info", !.tick_start = now,
                             !.next_draw = get_next_draw_date(now),
                             !.current_draw_id = get_current_draw_id(now),
                             !.current_jackpot = get_lottery_jackpot.current_amount,
                             !.no_winner_months = get_lottery_jackpot.no_winner_months]]
  /\ UNCHANGED << payout_vars, now, cash, transactions, tickets, jackpot, draws, pc, paid,
                  ndraws, pool_reset, checked >>

\* time passes after a request was answered
CalendarClock ==
  /\ loc["loop"].kind = "info" /\ loc["loop"].tick_start = now
  /\ \E d \in CalendarSteps : now + d \in CalendarHours /\ now' = now + d
  /\ UNCHANGED << payout_vars, cash, transactions, tickets, jackpot, draws, pc, loc, paid,
                  ndraws, pool_reset, checked >>

\* the server is started at any hour of the calendar
CalendarInit ==
  /\ now \in CalendarHours
  /\ cash = InitCash
  /\ tickets = << >>
  /\ jackpot = [current_amount |-> initial_jackpot, no_winner_months |-> 0]
  /\ draws = [d \in DrawIds |-> NoDraw]
  /\ pc = [p \in Threads |-> "idle"]
  /\ loc = [p \in Threads |-> Blank]
  /\ paid = << >>
  /\ ndraws = 0
  /\ pool_reset = FALSE
  /\ checked = {}
  /\ coin_flips = << >>
  /\ response = NoResponse
  /\ calls = NoCalls
  /\ installments = << >>
  /\ runner = Idle
  /\ credits = << >>
  /\ transactions = << >>

CalendarNext == CalendarClock \/ lottery_info

CalendarSpec == CalendarInit /\ [][CalendarNext]_vars

\* ------------------------------------------------------- payout options
\* mutant: the third decimal is cut off
round_2_down(x) == Fraction((100 * x[1]) \div x[2], 100)

\* round(x, 2): the nearest hundredth, the even one of two equally near
round_2(x) ==
  LET q == (100 * x[1]) \div x[2]
      r == (100 * x[1]) % x[2]
  IN  IF 2 * r < x[2] THEN Fraction(q, 100)
      ELSE IF 2 * r > x[2] THEN Fraction(q + 1, 100)
      ELSE Fraction(q + (q % 2), 100)

\* jackpot * (percent / 100.0)
calculate_lump_sum(jackpot_amount) ==
  Fraction(jackpot_amount * lump_sum_percent, 100)

calculate_installment_details(jackpot_amount) ==
  LET weeks == installment_weeks
      payment_days == installment_days
      payments_per_week == Len(payment_days)
      total_payments == weeks * payments_per_week
      per_payment == truediv(Whole(jackpot_amount), total_payments)
  IN  [total |-> jackpot_amount, per_payment |-> round_2(per_payment),
       num_payments |-> total_payments, schedule_days |-> payment_days,
       weeks |-> weeks]

\* the two payout options of the pool as it stands are worked out
payout_options ==
  /\ pc["loop"] = "idle"
  /\ loc["loop"] = Blank
  /\ loc' = [loc EXCEPT !["loop"] =
               [kind |-> "payout",
                jackpot |-> get_lottery_jackpot.current_amount,
                lump_sum |-> calculate_lump_sum(get_lottery_jackpot.current_amount),
                installments |->
                  calculate_installment_details(get_lottery_jackpot.current_amount)]]
  /\ UNCHANGED << payout_vars, now, cash, transactions, tickets, jackpot, draws,
                  pc, paid, ndraws, pool_reset, checked >>

\* the options have been shown
payout_options_return ==
  /\ loc["loop"].kind = "payout"
  /\ loc' = [loc EXCEPT !["loop"] = Blank]
  /\ UNCHANGED << payout_vars, now, cash, transactions, tickets, jackpot, draws,
                  pc, paid, ndraws, pool_reset, checked >>

\* the pool after any number of tickets sold since the last reset
PayoutInit ==
  /\ now = DrawTime(1) - 1
  /\ cash = InitCash
  /\ tickets = << >>
  /\ \E sold \in 0..MaxSold :
       jackpot = [current_amount |->
                    initial_jackpot + sold * contribution(ticket_price),
                  no_winner_months |-> 0]
  /\ draws = [d \in DrawIds |-> NoDraw]
  /\ pc = [p \in Threads |-> "idle"]
  /\ loc = [p \in Threads |-> Blank]
  /\ paid = << >>
  /\ ndraws = 0
  /\ pool_reset = FALSE
  /\ checked = {}
  /\ coin_flips = << >>
  /\ response = NoResponse
  /\ calls = NoCalls
  /\ installments = << >>
  /\ runner = Idle
  /\ credits = << >>
  /\ transactions = << >>

PayoutNext == payout_options \/ payout_options_return

PayoutSpec == PayoutInit /\ [][PayoutNext]_vars

\* ---------------------------------------------------- tickets of all tiers
\* the numbers bought: against the first winning sample they match in 6, 5,
\* 4, 2, 1 and 0 places, against the second in 3, 1 or 0
PrizeNumbers ==
  { << 1, 2, 3, 4, 5, 6 >>,
    << 1, 2, 3, 4, 5, 7 >>,
    << 1, 2, 3, 4, 7, 8 >>,
    << 1, 2, 7, 8, 9, 13 >>,
    << 1, 7, 8, 9, 13, 14 >>,
    << 7, 8, 9, 13, 14, 15 >> }

\* purchases of these numbers and admin-forced draws, one handler at a time
PrizeNext ==
  \/ ClockAdvance
  \/ /\ pc["loop"] = "idle"
     /\ \E u \in Users, n \in PrizeNumbers : lottery_buy_check(u, n)
  \/ lottery_buy_raise
  \/ lottery_buy_issue
  \/ lottery_draw_admin
  \/ perform_draw("loop")

PrizeSpec == DrawInit /\ [][PrizeNext]_vars

\* ------------------------------------------------- numbers of a purchase
\* the number lists these purchases send: one short, exact or one long, each
\* place holding its own index, a 1 or the first number past the range, the
\* first place also a 0 and the last place of six also the largest number
Place(i) ==
  {i, 1, number_range_max + 1}
    \cup (IF i = 1 THEN {0} ELSE {})
    \cup (IF i = numbers_to_pick THEN {number_range_max} ELSE {})

RECURSIVE ListsOf(_)
ListsOf(k) ==
  IF k = 0 THEN { << >> }
  ELSE { Append(n, v) : n \in ListsOf(k - 1), v \in Place(k) }

ValidateInputs ==
  UNION { ListsOf(k) : k \in (numbers_to_pick - 1)..(numbers_to_pick + 1) }

\* POST /games/lottery/buy with these lists
ValidateNext ==
  \/ /\ pc["loop"] = "idle"
     /\ \E u \in Users, n \in ValidateInputs : lottery_buy_check(u, n)
  \/ lottery_buy_raise
  \/ lottery_buy_issue

ValidateSpec == Init /\ [][ValidateNext]_vars


\* ------------------------------------------------------------------- claims
InDraw(p) == pc[p] \in {"pd_pay", "pd_jp_read", "pd_jp_write"}
HasPaid(p) == pc[p] \in {"pd_jp_read", "pd_jp_write"}

TicketsFor(ts, draw_id) ==
  { i \in 1..Len(ts) : ts[i].draw_id = draw_id }

HeldBy(ts, user_id, draw_id) ==
  { i \in 1..Len(ts) : ts[i].user_id = user_id /\ ts[i].draw_id = draw_id }

\* C1: once a perform_draw for a draw_id has completed, every step of a later
\* perform_draw for that draw_id (scheduler tick or admin-forced) credits no
\* ledger and leaves JackpotPool and the recorded Draw unchanged.
C1_RepeatedDrawIsNoOp ==
  [][\A p \in Threads :
       ( /\ InDraw(p)
         /\ pc'[p] # pc[p]
         /\ IF pc[p] = "pd_pay"
            THEN draws[get_current_draw_id(now)].status = "completed"
            ELSE loc[p].pre_completed )
       => (cash' = cash /\ jackpot' = jackpot /\ draws' = draws)]_vars

\* C2: when two perform_draw executions for the same draw_id overlap, no
\* ticket has been credited a prize more than once.
C2_OverlappingDrawsPayOnce ==
  ( /\ \A p \in Threads : HasPaid(p)
    /\ loc["loop"].draw_id = loc["sched"].draw_id )
  => \A i \in 1..Len(paid) : paid[i] <= 1

\* C3: no period's draw is skipped: once a whole draw-check tick has run at or
\* after the scheduled draw time of period d, Draw d is completed.
C3_NoDrawSkipped ==
  \A d \in checked : draws[d].status = "completed"

\* C4: the draw the scheduler executes when the scheduled time next_draw is
\* crossed operates on the period of that scheduled time.
C4_SchedulerDrawsCrossedPeriod ==
  HasPaid("sched") =>
    loc["sched"].draw_id = strftime_Ym(loc["sched"].next_draw)

\* C5: JackpotPool.current_amount is never negative.
C5_JackpotNeverNegative == jackpot.current_amount >= 0

C5_Witness ==
  /\ Len(tickets) >= 1
  /\ pool_reset
  /\ \E d \in DrawIds : draws[d].status = "completed"

\* C6: the pool write of a perform_draw with zero jackpot winners increases
\* no_winner_streak by exactly 1 and leaves current_amount as it was; with one
\* or more jackpot winners it sets current_amount to initial_jackpot and
\* no_winner_streak to 0.
C6_DrawPoolUpdate ==
  [][\A p \in Threads :
       (pc[p] = "pd_jp_write" /\ pc'[p] = "idle")
       => IF loc[p].jackpot_winners = << >>
          THEN /\ jackpot'.no_winner_months = jackpot.no_winner_months + 1
               /\ jackpot'.current_amount = jackpot.current_amount
          ELSE /\ jackpot'.current_amount = initial_jackpot
               /\ jackpot'.no_winner_months = 0]_vars

C9_QuotaEnforced ==
  /\ [](\A u \in Users, d \in DrawIds :
          Cardinality(HeldBy(tickets, u, d)) <= max_tickets_per_user)
  /\ [][( /\ pc["loop"] = "idle"
          /\ loc'["loop"].kind = "buy"
          /\ validate_numbers(loc'["loop"].numbers).valid
          /\ Cardinality(HeldBy(tickets, loc'["loop"].user,
                                get_current_draw_id(now))) >= max_tickets_per_user )
        => ( /\ pc'["loop"] = "buy_raise"
             /\ loc'["loop"].error = "QuotaExceeded"
             /\ tickets' = tickets )]_vars

C9_Witness ==
  /\ pc["loop"] = "buy_raise"
  /\ loc["loop"].error = "QuotaExceeded"
  /\ Cardinality(HeldBy(tickets, loc["loop"].user, loc["loop"].draw_id))
       = max_tickets_per_user

HasPlan(rows, user_id, draw_id) ==
  \E i \in 1..Len(rows) : rows[i].user_id = user_id /\ rows[i].draw_id = draw_id

\* a pending coin flip request of this draw naming the two users is among the rows
HasPendingFlip(rows, draw_id, a, b) ==
  \E i \in 1..Len(rows) :
    /\ rows[i].draw_id = draw_id
    /\ rows[i].status = "pending"
    /\ {rows[i].user1_id, rows[i].user2_id} = {a, b}

\* C12: when a perform_draw with exactly one jackpot winner ends, the winner
\* has been credited or holds an installment plan for the draw; when one with
\* exactly two jackpot winners ends, a pending coin flip request names the two
\* and neither has been credited.
C12_JackpotRouted ==
  [][\A p \in Threads :
       (pc[p] = "pd_jp_write" /\ pc'[p] = "idle")
       => LET jw == loc[p].jackpot_winners
          IN  /\ Len(jw) = 1 =>
                   \/ Less(cash[jw[1]], cash'[jw[1]])
                   \/ HasPlan(installments', jw[1], loc[p].draw_id)
              /\ Len(jw) = 2 =>
                   /\ HasPendingFlip(coin_flips', loc[p].draw_id, jw[1], jw[2])
                   /\ cash'[jw[1]] = cash[jw[1]]
                   /\ cash'[jw[2]] = cash[jw[2]]]_vars

\* this step is a call of respond_to_coin_flip for an existing request
Responds ==
  /\ response'.n = response.n + 1
  /\ response'.request_id \in 1..Len(coin_flips)

Candidates(request) == {request.user1_id, request.user2_id}

Decided(request) == request.user1_agreed # 0 /\ request.user2_agreed # 0

Closed(request) == request.status \in {"completed", "declined", "expired"}

\* C13: when the respond that makes both candidates agreed completes the
\* request, exactly one candidate is credited and the other is not.
C13_TieBreakPaysOne ==
  [][( /\ Responds
       /\ coin_flips[response'.request_id].status = "pending"
       /\ coin_flips'[response'.request_id].status = "completed" )
     => \E w \in Candidates(coin_flips[response'.request_id]) :
          /\ Less(cash[w], cash'[w])
          /\ \A u \in Users \ {w} : cash'[u] = cash[u]]_vars

\* C14 as claimed: a request stays pending until both candidates have a
\* recorded decision, and with both recorded it is completed with a candidate
\* as resolved winner if both agreed, declined without a winner if one
\* declined.
C14_PendingUntilBothDecided ==
  /\ [][\A i \in 1..Len(coin_flips) :
          ( coin_flips[i].status = "pending" /\ ~ Decided(coin_flips'[i]) )
          => coin_flips'[i].status = "pending"]_vars
  /\ [](\A i \in 1..Len(coin_flips) :
          /\ Decided(coin_flips[i]) =>
                coin_flips[i].status \in {"completed", "declined"}
          /\ coin_flips[i].status = "completed" =>
                coin_flips[i].winner_id \in Candidates(coin_flips[i])
          /\ coin_flips[i].status = "declined" => coin_flips[i].winner_id = 0)

\* C14 amended: a request with a candidate's decision missing is pending or,
\* after a respond made past expires_at, expired; with both decisions
\* recorded it is completed with a candidate as resolved winner if both
\* agreed, declined without a winner if one declined.
C14_ResolvedBySecondDecision ==
  \A i \in 1..Len(coin_flips) :
    LET request == coin_flips[i]
    IN  /\ request.status = "pending" => ~ Decided(request)
        /\ ~ Decided(request) => request.status \in {"pending", "expired"}
        /\ request.status = "completed" =>
              /\ request.user1_agreed = 1 /\ request.user2_agreed = 1
              /\ request.winner_id \in Candidates(request)
        /\ request.status = "declined" =>
              /\ Decided(request)
              /\ request.user1_agreed = 0 - 1 \/ request.user2_agreed = 0 - 1
              /\ request.winner_id = 0

C14_Witness ==
  /\ response.status = "completed"
  /\ response.winner_id = 2
  /\ coin_flips[response.request_id].status = "completed"
  /\ coin_flips[response.request_id].winner_id = 2

\* C15: a respond to a pending request made after expires_at fails with
\* Expired and only changes the status to expired; an expired request never
\* changes again and has no resolved winner.
C15_LateRespondExpires ==
  /\ [][( /\ Responds
          /\ coin_flips[response'.request_id].status = "pending"
          /\ now > coin_flips[response'.request_id].expires_at )
        => ( /\ response'.success = FALSE
             /\ response'.error = "Expired"
             /\ coin_flips' =
                   [coin_flips EXCEPT ![response'.request_id].status = "expired"] )]_vars
  /\ [][\A i \in 1..Len(coin_flips) :
          coin_flips[i].status = "expired"
          => ( coin_flips'[i] = coin_flips[i] /\ coin_flips[i].winner_id = 0 )]_vars

C15_Witness ==
  /\ response.error = "Expired"
  /\ coin_flips[response.request_id].status = "expired"
  /\ coin_flips[response.request_id].user1_agreed = 1
  /\ coin_flips[response.request_id].user2_agreed = 0

\* C16: every respond to a completed, declined or expired request fails with
\* AlreadyResolved and leaves the request as it is.
C16_ClosedIsTerminal ==
  [][( Responds /\ Closed(coin_flips[response'.request_id]) )
     => ( /\ response'.success = FALSE
          /\ response'.error = "AlreadyResolved"
          /\ coin_flips' = coin_flips )]_vars

C16_Witness ==
  /\ response.error = "AlreadyResolved"
  /\ coin_flips[response.request_id].status = "completed"

\* C17 as claimed: every respond by a user who is no candidate of the request
\* fails with NotAParty and leaves the request as it is.
C17_OutsiderNotAParty ==
  [][( Responds
       /\ response'.user_id \notin Candidates(coin_flips[response'.request_id]) )
     => ( /\ response'.error = "NotAParty"
          /\ coin_flips' = coin_flips )]_vars

\* C17 amended: a respond by a user who is no candidate never succeeds and
\* never changes an agreement or the resolved winner; it fails with
\* AlreadyResolved on a closed request, with Expired (marking the request
\* expired) on a pending request past expires_at, and with NotAParty, leaving
\* the request as it is, otherwise.
C17_OutsiderRejected ==
  [][( Responds
       /\ response'.user_id \notin Candidates(coin_flips[response'.request_id]) )
     => LET request == coin_flips[response'.request_id]
        IN  /\ response'.success = FALSE
            /\ IF Closed(request)
               THEN response'.error = "AlreadyResolved" /\ coin_flips' = coin_flips
               ELSE IF now > request.expires_at
               THEN /\ response'.error = "Expired"
                    /\ coin_flips' =
                         [coin_flips EXCEPT ![response'.request_id].status = "expired"]
               ELSE response'.error = "NotAParty" /\ coin_flips' = coin_flips]_vars

C17_Witness ==
  /\ response.error = "NotAParty"
  /\ response.user_id = Outsider
  /\ coin_flips[response.request_id].status = "pending"

\* a plan with payments left whose payment date has come
Due(installment, t) ==
  /\ installment.payments_remaining > 0
  /\ installment.next_payment_date # NoDate
  /\ installment.next_payment_date[1] <= t

\* this step credits the owner of the plan at the head of the job's list
Credits == runner.pc = "loop" /\ runner'.pc = "credited"

\* this step writes the plan at the head of the job's list
Updates == runner.pc = "credited" /\ runner'.pc # "credited" /\ installments' # installments

NoRepeat(dates) ==
  \A j, k \in 1..Len(dates) : j # k => dates[j] # dates[k]

\* C18: a plan is credited only when it is due and at most once for each
\* payment date, and the next_payment_date a payment writes is strictly later
\* than the time of the payment.
C18_PaidOncePerDate ==
  /\ [](\A i \in 1..Len(credits) : NoRepeat(credits[i]))
  /\ [][Credits => Due(installments[Head(runner.pending)], now)]_vars
  /\ [][Updates =>
          LET row == installments'[Head(runner.pending)]
          IN  row.next_payment_date # NoDate => row.next_payment_date[1] > now]_vars

C18_Witness ==
  /\ runner.pc = "idle"
  /\ Len(installments) >= 1
  /\ Len(credits[1]) = 2
  /\ installments[1].payments_remaining = 0

\* C19: once a plan has been brought up to date (no installment run is under
\* way and the plan is no longer due), also when a run was interrupted
\* between the credit and the plan update and then retried, no payment date
\* of the plan has been credited twice and payments_remaining has decreased
\* by exactly the number of credits made.
C19_CreditAndUpdateAtomic ==
  runner.pc = "idle" =>
    \A i \in 1..Len(installments) :
      ~ Due(installments[i], now) =>
        /\ NoRepeat(credits[i])
        /\ installments[i].payments_remaining + Len(credits[i])
             = Count(installments[i].total_amount, installments[i].per_payment)

\* the payment weekdays Monday, Wednesday, Friday as weekday() numbers
PaymentWeekdays == {0, 2, 4}

\* noon of the first payment weekday after the day of t
NextPaymentSlot(t) ==
  LET today == t \div 24
      day == CHOOSE d \in (today + 1)..(today + 7) :
               /\ weekday(24 * d) \in PaymentWeekdays
               /\ \A e \in (today + 1)..(d - 1) : weekday(24 * e) \notin PaymentWeekdays
  IN  24 * day + payment_hour

\* C20: a run of the installment job takes exactly the plans with
\* payments_remaining > 0 and next_payment_date <= now, each once; for each
\* it credits the owner per_payment, decreases payments_remaining by 1,
\* increases paid_amount by per_payment and moves next_payment_date to the
\* next payment weekday if payments remain, to null otherwise; every other
\* plan is left unchanged.
C20_ProcessDue ==
  /\ [][( runner.pc = "idle" /\ runner'.pc = "loop" )
        => ( /\ SeqToSet(runner'.pending) =
                  { i \in 1..Len(installments) : Due(installments[i], now) }
             /\ NoRepeat(runner'.pending) )]_vars
  /\ [][( runner.pc = "loop" /\ runner' # runner )
        => LET plan == installments[Head(runner.pending)]
           IN  /\ Due(plan, now)
               /\ runner'.pc = "credited"
               /\ cash' = [cash EXCEPT ![plan.user_id] =
                                    Plus(@, plan.per_payment)]]_vars
  /\ [][( runner.pc = "credited" /\ runner' # runner )
        => LET id == Head(runner.pending)
               plan == installments[id]
               left == plan.payments_remaining - 1
           IN  /\ cash' = cash
               /\ installments' = [installments EXCEPT ![id] =
                     [plan EXCEPT
                        !.payments_remaining = left,
                        !.paid_amount = Plus(plan.paid_amount, plan.per_payment),
                        !.next_payment_date =
                           IF left > 0 THEN << NextPaymentSlot(now) >> ELSE NoDate]]]_vars
  /\ [][\A i \in 1..Len(installments) :
          ~ ( runner.pc = "credited" /\ Head(runner.pending) = i )
          => installments'[i] = installments[i]]_vars

C20_Witness ==
  /\ runner.pc = "idle"
  /\ Len(installments) = 2
  /\ \E i, j \in 1..2 :
       /\ installments[i].payments_remaining = 1
       /\ installments[i].paid_amount = installments[i].per_payment
       /\ installments[i].next_payment_date # NoDate
       /\ installments[j].payments_remaining = 0
       /\ installments[j].paid_amount = installments[j].total_amount
       /\ installments[j].next_payment_date = NoDate

\* the numbers of payments a plan of the model can start with
PaymentCounts == { plan.num_payments : plan \in PlanInputs }

\* C21: payments_remaining of a plan never increases; a plan with payments
\* left always has a payment date, and when that date has come the job, which
\* keeps running, eventually brings payments_remaining down, until it is 0;
\* a plan at 0 is never returned by get_pending_installments and never
\* credited again.
C21_RemainingReachesZero ==
  /\ [][\A i \in 1..Len(installments) :
          installments'[i].payments_remaining
            <= installments[i].payments_remaining]_vars
  /\ [](\A i \in 1..Len(installments) :
          /\ installments[i].payments_remaining >= 0
          /\ installments[i].payments_remaining > 0
                => installments[i].next_payment_date # NoDate
          /\ installments[i].payments_remaining = 0
                => /\ i \notin SeqToSet(get_pending_installments)
                   /\ i \notin SeqToSet(runner.pending))
  /\ [][\A i \in 1..Len(installments) :
          installments[i].payments_remaining = 0
          => credits'[i] = credits[i]]_vars
  /\ \A i \in 1..MaxPlans : \A k \in PaymentCounts :
       ( /\ Len(installments) >= i
         /\ Due(installments[i], now)
         /\ installments[i].payments_remaining = k )
       ~> ( Len(installments) >= i /\ installments[i].payments_remaining < k )

C21_Witness ==
  /\ runner.pc = "idle"
  /\ Len(installments) = 2
  /\ \A i \in 1..2 :
       /\ installments[i].payments_remaining = 0
       /\ installments[i].next_payment_date = NoDate
       /\ Len(credits[i]) = Count(installments[i].total_amount,
                                   installments[i].per_payment)

\* C22: for every plan, in exact arithmetic, paid_amount + payments_remaining
\* * per_payment = total_amount in every reachable state; paid_amount never
\* exceeds total_amount and equals it exactly when no payment remains.
C22_PaidPlusRemainingIsTotal ==
  \A i \in 1..Len(installments) :
    LET plan == installments[i]
    IN  /\ Plus(plan.paid_amount, Times(plan.payments_remaining, plan.per_payment))
             = plan.total_amount
        /\ LessEq(plan.paid_amount, plan.total_amount)
        /\ (plan.payments_remaining = 0) <=> (plan.paid_amount = plan.total_amount)

C22_Witness ==
  \E i \in 1..Len(installments) :
    /\ installments[i].per_payment = << 100, 3 >>
    /\ installments[i].payments_remaining = 0
    /\ installments[i].paid_amount = Whole(100)
    /\ Len(credits[i]) = 3

\* C28: when a perform_draw returns normally for a draw_id, a Draw record of
\* that draw_id exists, is completed and holds the winning numbers, the
\* winner list and the jackpot amount read at draw time, also when no pending
\* record existed before the call.
C28_DrawRecorded ==
  [][\A p \in Threads :
       (pc[p] = "pd_jp_write" /\ pc'[p] = "idle")
       => LET record == draws'[loc[p].draw_id]
          IN  /\ record.status = "completed"
              /\ record.winning_numbers = loc[p].winning_numbers
              /\ record.winners = loc[p].winners
              /\ record.jackpot_amount = loc[p].current_jackpot]_vars

\* C29: the status of a Draw only moves from pending to completed: a
\* completed Draw stays completed, an existing Draw never loses its record,
\* and the scheduler's check of an existing Draw record changes none of its
\* fields.
C29_DrawStatusMonotone ==
  [][\A d \in DrawIds :
       /\ draws[d].status = "completed" => draws'[d].status = "completed"
       /\ draws[d].status = "pending" => draws'[d].status \in {"pending", "completed"}
       /\ ( /\ pc["sched"] = "cd_record"
            /\ pc'["sched"] # "cd_record"
            /\ draws[d].status # "none" )
            => draws'[d] = draws[d]]_vars

C29_Witness ==
  /\ pc["sched"] = "cd_now"
  /\ draws[loc["sched"].current_draw_id].status = "pending"
  /\ draws[loc["sched"].current_draw_id].jackpot_amount # jackpot.current_amount

\* C23: when the credit of one winner fails during a perform_draw, the draw
\* goes on to the pool update and the record, every other winner of the draw
\* is paid, and the failed winner is in the winner list.
C23_CreditFailureIsolated ==
  [][\A p \in Threads :
       (pc[p] = "pd_pay" /\ pc'[p] # "pd_pay" /\ loc'[p].failed # 0)
       => LET ws == draw_winners(get_all_tickets_for_draw(loc'[p].draw_id),
                                 loc'[p].winning_numbers, loc'[p].current_jackpot)
          IN  /\ pc'[p] = "pd_jp_read"
              /\ \A j \in 1..Len(ws) :
                   ( ws[j].ticket_id # loc'[p].failed /\ immediate_credit(ws[j]) > 0 )
                   => paid'[ws[j].ticket_id] = paid[ws[j].ticket_id] + 1
              /\ \E j \in 1..Len(loc'[p].winners) :
                   loc'[p].winners[j].ticket_id = loc'[p].failed]_vars

\* the entries of a winner list that were forced, and those that matched
ForcedEntries(ws) == { j \in 1..Len(ws) : ws[j].note # "" }
MatchedJackpots(ws) ==
  { j \in 1..Len(ws) : ws[j].note = "" /\ ws[j].prize_type = "jackpot" }

\* C26: the winner loop of perform_draw records a forced jackpot winner only
\* when no ticket matched the jackpot tier and the draw has a ticket; never
\* at streak 0, always at streak >= 2, so that such a draw with tickets has a
\* jackpot winner and its pool write sets the streak to 0; the forced ticket
\* is one of the tickets sold for the draw.
C26_ForcedWinner ==
  /\ [][\A p \in Threads :
          (pc[p] = "pd_pay" /\ pc'[p] = "pd_jp_read")
          => LET ws == loc'[p].winners
                 sold == TicketsFor(tickets, loc'[p].draw_id)
                 streak == jackpot.no_winner_months
             IN  /\ Cardinality(ForcedEntries(ws)) <= 1
                 /\ ForcedEntries(ws) # {}
                      => MatchedJackpots(ws) = {} /\ sold # {} /\ streak >= 1
                 /\ \A j \in ForcedEntries(ws) :
                      /\ ws[j].prize_type = "jackpot"
                      /\ ws[j].ticket_id \in sold
                      /\ ws[j].user_id = tickets[ws[j].ticket_id].user_id
                 /\ streak = 0 => ForcedEntries(ws) = {}
                 /\ ( streak >= 2 /\ sold # {} )
                      => /\ loc'[p].jackpot_winners # << >>
                         /\ MatchedJackpots(ws) = {} => ForcedEntries(ws) # {}]_vars
  /\ [][\A p \in Threads :
          ( /\ pc[p] = "pd_jp_write" /\ pc'[p] = "idle"
            /\ loc[p].jackpot_winners # << >> )
          => jackpot'.no_winner_months = 0]_vars

C26_Witness ==
  /\ pc["loop"] = "pd_jp_read"
  /\ loc["loop"].no_winner_months >= 2
  /\ Cardinality(TicketsFor(tickets, loc["loop"].draw_id)) = 2
  /\ \E j \in ForcedEntries(loc["loop"].winners) :
       loc["loop"].winners[j].ticket_id = 2

\* C27: should_force_winner(0) is (False, 0.0), should_force_winner(1) is
\* (True, month_1_no_winner_boost) and should_force_winner(n) is (True, 1.0)
\* for every n >= 2, on every streak a draw finds in the pool.
C27_ShouldForceWinner ==
  LET n == jackpot.no_winner_months
  IN  /\ n = 0 => should_force_winner(n) = << FALSE, 0 >>
      /\ n = 1 => should_force_winner(n) = << TRUE, month_1_no_winner_boost >>
      /\ n >= 2 => should_force_winner(n) = << TRUE, 100 >>

C27_Witness ==
  /\ pc["loop"] = "pd_jp_read"
  /\ loc["loop"].no_winner_months = 3
  /\ jackpot.no_winner_months = 3

\* C24: a failure while one due plan is paid does not end the run of the
\* installment job: a run ends only after the last plan of its list, so
\* every other plan returned for the run is still paid in it.
C24_BatchSurvivesFailure ==
  [][( runner.pc # "idle" /\ runner'.pc = "idle" )
     => Tail(runner.pending) = << >>]_vars

\* C25: an exception inside a draw check, a scheduled draw or an installment
\* run is caught in that cycle: the job is back at rest with the exception
\* logged, and its next tick can start.
C25_SchedulerSurvives ==
  /\ [][( loc'["sched"].error = "Exception" /\ loc'["sched"] # loc["sched"] )
        => pc'["sched"] = "idle"]_vars
  /\ [][( runner'.error = "Exception" /\ runner' # runner )
        => runner'.pc = "idle"]_vars
  /\ [](loc["sched"].error = "Exception" => ENABLED check_next_draw)
  /\ []( ( runner.error = "Exception" /\ get_pending_installments # << >> )
          => ENABLED process_installments_start )

C25_Witness ==
  /\ loc["sched"].error = "Exception"
  /\ loc["sched"].kind = "draw"
  /\ runner.error = "Exception"
  /\ get_pending_installments # << >>
  /\ ENABLED check_next_draw
  /\ ENABLED process_installments_start

\* C30: the pool (current_amount and no_winner_months) changes only in the
\* step that issues a ticket and in the step that completes a draw; a refused
\* purchase, a scheduler check that runs no draw, a tie-break response and
\* the installment job leave it as it was
C30_PoolFrame ==
  [][ /\ jackpot' # jackpot =>
           \/ /\ pc["loop"] = "buy_jp_write"
              /\ pc'["loop"] = "idle"
              /\ Len(tickets') = Len(tickets) + 1
           \/ \E p \in Threads : pc[p] = "pd_jp_write" /\ pc'[p] = "idle"
      /\ (pc["loop"] = "buy_raise" /\ pc'["loop"] = "idle") => jackpot' = jackpot
      /\ (pc["sched"] = "cd_now" /\ pc'["sched"] = "idle") => jackpot' = jackpot
      /\ (coin_flips' # coin_flips \/ response' # response) => jackpot' = jackpot
      /\ (installments' # installments \/ runner' # runner \/ credits' # credits)
           => jackpot' = jackpot ]_vars

\* a ticket was sold and a later purchase is being refused, the scheduler ran
\* its draw, a tie-break was answered and an installment was paid: the pool
\* holds what the sale and the draw left
C30_Witness ==
  /\ pc["loop"] = "buy_raise"
  /\ Len(tickets) = 1
  /\ \E d \in DrawIds : draws[d].status = "completed"
  /\ response.n = 1
  /\ Len(installments) = 1 /\ Len(credits[1]) = 1
  /\ installments[1].payments_remaining = 0
  /\ jackpot \in { [current_amount |-> initial_jackpot, no_winner_months |-> 0],
                   [current_amount |-> initial_jackpot + contribution(ticket_price),
                    no_winner_months |-> 1] }

\* the day of the month of t, from 1
DayOfMonth(t) == (t - MonthStart(MonthIndex(t))) \div 24 + 1

\* t is a scheduled draw time: the first Friday of its month at the draw hour
IsDrawSlot(t) ==
  /\ weekday(t) = FRIDAY
  /\ t % 24 = draw_hour
  /\ DayOfMonth(t) <= 7

\* C33: next_draw_date(now) is strictly after now and is the earliest first
\* Friday of a month at the draw hour after now, this month's if it has not
\* passed yet and the following month's otherwise
C33_NextDrawDate ==
  loc["loop"].kind = "info" =>
    LET t == loc["loop"].tick_start
        d == loc["loop"].next_draw
    IN  /\ d > t
        /\ IsDrawSlot(d)
        /\ \A s \in (t + 1)..(d - 1) : ~ IsDrawSlot(s)

\* asked in December after that month's draw, the answer is in January of
\* the next year
C33_Witness ==
  /\ loc["loop"].kind = "info"
  /\ strftime_Ym(loc["loop"].tick_start) = << 2026, 12 >>
  /\ strftime_Ym(loc["loop"].next_draw) = << 2027, 1 >>

\* C34: the draw_id is the year and month of next_draw_date; two answers
\* with no scheduled draw time between them carry the same draw_id, the
\* draw_id differs once the clock has reached a scheduled draw time, and it
\* never goes back to an earlier period
C34_DrawIdStable ==
  [][ (loc["loop"].kind = "info" /\ loc'["loop"].kind = "info") =>
        LET t0 == loc["loop"].tick_start
            t1 == loc'["loop"].tick_start
            id0 == loc["loop"].current_draw_id
            id1 == loc'["loop"].current_draw_id
        IN  /\ id1 = strftime_Ym(loc'["loop"].next_draw)
            /\ (id1 = id0) <=> ~ \E s \in (t0 + 1)..t1 : IsDrawSlot(s)
            /\ IndexOf(id1[1], id1[2]) >= IndexOf(id0[1], id0[2]) ]_vars

\* an answer given at a scheduled draw time: it already names the period
\* that follows
C34_Witness ==
  /\ loc["loop"].kind = "info"
  /\ loc["loop"].tick_start = now
  /\ IsDrawSlot(now)
  /\ loc["loop"].current_draw_id # strftime_Ym(now)

\* t is a scheduled payment slot: a payment weekday at the payment hour
IsPaymentSlot(t) == weekday(t) \in PaymentWeekdays /\ t % 24 = payment_hour

\* C35: the next_payment_date a new plan gets is after the creation time,
\* and no payment slot (Monday, Wednesday or Friday at the payment hour)
\* lies strictly between the creation time and it
C35_FirstPaymentIsNearest ==
  [][ Len(installments') > Len(installments) =>
        LET d == installments'[Len(installments')].next_payment_date[1]
        IN  /\ d > now
            /\ \A s \in (now + 1)..(d - 1) : ~ IsPaymentSlot(s) ]_vars

\* the three conditions of a valid list, and the error the first failing
\* condition stands for
RightCount(n) == Len(n) = numbers_to_pick
AllDistinct(n) == \A i \in 1..Len(n) : \A j \in 1..Len(n) : i # j => n[i] # n[j]
AllInRange(n) == \A i \in 1..Len(n) : n[i] >= 1 /\ n[i] <= number_range_max
ExpectedError(n) ==
  IF ~ RightCount(n) THEN "InvalidCount"
  ELSE IF ~ AllDistinct(n) THEN "Duplicate"
  ELSE IF ~ AllInRange(n) THEN "OutOfRange"
  ELSE None

\* C36: a purchase passes validate_numbers iff its list has pick_count
\* values, all distinct, all in [1, max_number]; otherwise it is refused with
\* InvalidCount if the length is wrong, else Duplicate if a value repeats,
\* else OutOfRange
C36_ValidateNumbers ==
  loc["loop"].kind = "buy" =>
    LET n == loc["loop"].numbers
    IN  /\ validate_numbers(n).valid
             <=> (RightCount(n) /\ AllDistinct(n) /\ AllInRange(n))
        /\ validate_numbers(n).error = ExpectedError(n)
        /\ pc["loop"] = "buy_jp_write" => ExpectedError(n) = None
        /\ ExpectedError(n) # None =>
             pc["loop"] = "buy_raise" /\ loc["loop"].error = ExpectedError(n)

\* a list of six that both repeats a value and holds one out of range is
\* refused as a duplicate
C36_Witness ==
  /\ pc["loop"] = "buy_raise"
  /\ RightCount(loc["loop"].numbers)
  /\ ~ AllDistinct(loc["loop"].numbers)
  /\ ~ AllInRange(loc["loop"].numbers)
  /\ loc["loop"].error = "Duplicate"

\* |ticket numbers \cap winning numbers|
MatchCount(numbers, winning_numbers) ==
  Cardinality({ v \in SeqToSet(numbers) : v \in SeqToSet(winning_numbers) })

\* what the tier of a match count is worth at once: the amount of a cash
\* tier, the ticket price for the free ticket, nothing for the jackpot tier
\* and for a count without a tier
TierCredit(m) ==
  IF m \notin DOMAIN prize_tiers THEN 0
  ELSE IF prize_tiers[m].tier = "cash" THEN prize_tiers[m].cash
  ELSE IF prize_tiers[m].tier = "free_ticket" THEN ticket_price
  ELSE 0

\* the sum of these over the tickets of user u for draw d with id <= k
RECURSIVE SumTierCredit(_, _, _, _)
SumTierCredit(k, u, d, w) ==
  IF k = 0 THEN 0
  ELSE (IF tickets[k].draw_id = d /\ tickets[k].user_id = u
        THEN TierCredit(MatchCount(tickets[k].numbers, w)) ELSE 0)
       + SumTierCredit(k - 1, u, d, w)

\* C31: the winner loop of a draw credits every ticket of the draw once with
\* what the tier of its match count is worth: the amount of a cash tier, the
\* ticket price for a free ticket, nothing for a count without a tier, which
\* also gets no winner entry; and every credit is followed by a lottery_win
\* row in transactions
C31_TierCredits ==
  [][ \A p \in Threads : (pc[p] = "pd_pay" /\ pc'[p] = "pd_jp_read") =>
        LET d == loc'[p].draw_id
            w == loc'[p].winning_numbers
            ws == loc'[p].winners
            ids == TicketsFor(tickets, d)
            worth(i) == TierCredit(MatchCount(tickets[i].numbers, w))
            credited == { i \in ids : worth(i) > 0 }
            rows == SubSeq(transactions', Len(transactions) + 1, Len(transactions'))
        IN  /\ \A u \in Users :
                 cash'[u] = Plus(cash[u], Whole(SumTierCredit(Len(tickets), u, d, w)))
            /\ \A i \in 1..Len(tickets) :
                 paid'[i] = paid[i] + (IF i \in credited THEN 1 ELSE 0)
            /\ \A i \in ids :
                 LET entries == { j \in 1..Len(ws) :
                                    ws[j].ticket_id = i /\ ws[j].note = "" }
                     m == MatchCount(tickets[i].numbers, w)
                 IN  IF m \in DOMAIN prize_tiers
                     THEN /\ Cardinality(entries) = 1
                          /\ \A j \in entries :
                               /\ ws[j].matches = m
                               /\ ws[j].prize_type = prize_tiers[m].tier
                               /\ ws[j].user_id = tickets[i].user_id
                     ELSE entries = {}
            /\ \A j \in 1..Len(ws) : ws[j].ticket_id \in ids
            /\ Len(rows) = Cardinality(credited)
            /\ \A i \in credited :
                 LET row == rows[Cardinality({ j \in credited : j <= i })]
                     u == tickets[i].user_id
                 IN  /\ row.user_id = u
                     /\ row.type = "lottery_win"
                     /\ row.amount = worth(i)
                     /\ row.balance_after =
                          Plus(cash[u], Whole(SumTierCredit(i, u, d, w))) ]_vars

\* a draw with a ticket of five matches and a ticket of two has credited
\* 5000 and the ticket price and logged both
C31_Witness ==
  /\ pc["loop"] = "pd_jp_read"
  /\ Len(loc["loop"].winners) = 2
  /\ loc["loop"].winners[1].prize_type = "cash"
  /\ loc["loop"].winners[1].matches = 5
  /\ loc["loop"].winners[2].prize_type = "free_ticket"
  /\ Len(transactions) = 2
  /\ transactions[1].amount = 5000
  /\ transactions[2].amount = ticket_price
  /\ cash[1] = Whole(default_cash - ticket_price + 5000)
  /\ cash[2] = Whole(default_cash)

\* the prize of the default tier table for a match count
ExpectedPrize(m, J) ==
  CASE m = 6 -> [prize_type |-> "jackpot", amount |-> J]
    [] m = 5 -> [prize_type |-> "cash", amount |-> 5000]
    [] m = 4 -> [prize_type |-> "cash", amount |-> 500]
    [] m = 3 -> [prize_type |-> "cash", amount |-> 25]
    [] m = 2 -> [prize_type |-> "free_ticket", amount |-> 0]
    [] OTHER -> [prize_type |-> "none", amount |-> 0]

\* C37: calculate_prize(matches, J) is the tier of the match count: jackpot
\* with amount J for 6, cash with the tier's amount for 5, 4 and 3,
\* free_ticket with amount 0 for 2, and none with amount 0 for every other
\* count, 0 and 1 among them; the entries a draw makes carry these prizes
C37_CalculatePrize ==
  \A p \in Threads : pc[p] = "pd_jp_read" =>
    LET J == loc[p].current_jackpot
        w == loc[p].winning_numbers
        ws == loc[p].winners
    IN  /\ \A m \in 0..(numbers_to_pick + 1) :
             calculate_prize(m, J) = ExpectedPrize(m, J)
        /\ \A j \in 1..Len(ws) :
             ws[j].note = "" =>
               LET prize == ExpectedPrize(
                              MatchCount(tickets[ws[j].ticket_id].numbers, w), J)
               IN  /\ ws[j].prize_type = prize.prize_type
                   /\ ws[j].amount = prize.amount
                   /\ prize.prize_type # "none"
        /\ \A i \in TicketsFor(tickets, loc[p].draw_id) :
             ExpectedPrize(MatchCount(tickets[i].numbers, w), J).prize_type = "none"
               => \A j \in 1..Len(ws) : ws[j].ticket_id # i \/ ws[j].note # ""

\* a draw of a ticket with six matches and a ticket with one: the first is
\* entered with the pool as its amount, the second is not entered
C37_Witness ==
  /\ pc["loop"] = "pd_jp_read"
  /\ Cardinality(TicketsFor(tickets, loc["loop"].draw_id)) = 2
  /\ \E i \in TicketsFor(tickets, loc["loop"].draw_id) :
       MatchCount(tickets[i].numbers, loc["loop"].winning_numbers) = 1
  /\ Len(loc["loop"].winners) = 1
  /\ loc["loop"].winners[1].prize_type = "jackpot"
  /\ loc["loop"].winners[1].matches = 6
  /\ loc["loop"].winners[1].amount = initial_jackpot + 2 * contribution(ticket_price)

\* C32: every jackpot entry of a draw, matched or forced, carries the pool
\* amount the draw read when it started, whatever the number of jackpot
\* winners, and the Draw row of the draw stores that same amount
C32_JackpotAmountUnsplit ==
  [][ \A p \in Threads :
        /\ (pc[p] = "pd_pay" /\ pc'[p] = "pd_jp_read") =>
             /\ loc'[p].current_jackpot = jackpot.current_amount
             /\ \A j \in 1..Len(loc'[p].winners) :
                  loc'[p].winners[j].prize_type = "jackpot"
                    => loc'[p].winners[j].amount = jackpot.current_amount
        /\ (pc[p] = "pd_jp_write" /\ pc'[p] = "idle") =>
             /\ draws'[loc[p].draw_id].status = "completed"
             /\ draws'[loc[p].draw_id].jackpot_amount = loc[p].current_jackpot
             /\ draws'[loc[p].draw_id].winners = loc[p].winners ]_vars

\* C38 as stated: the lump sum is J * lump_sum_percent / 100, num_payments
\* is weeks * number of payment days and per_payment is J / num_payments
C38_PayoutOptionsExact ==
  loc["loop"].kind = "payout" =>
    LET J == loc["loop"].jackpot
        plan == loc["loop"].installments
    IN  /\ loc["loop"].lump_sum = Fraction(J * lump_sum_percent, 100)
        /\ plan.num_payments = installment_weeks * Len(installment_days)
        /\ plan.per_payment = Fraction(J, plan.num_payments)

\* C38: the lump sum is J * lump_sum_percent / 100, num_payments is
\* weeks * number of payment days, and per_payment is J / num_payments
\* rounded to the nearest hundredth; for J = 120000 (50 percent, 52 weeks, 3
\* payment days): 60000, 156 payments, 769.23
C38_PayoutOptionsRounded ==
  loc["loop"].kind = "payout" =>
    LET J == loc["loop"].jackpot
        plan == loc["loop"].installments
        n == plan.num_payments
        cents == (100 * plan.per_payment[1]) \div plan.per_payment[2]
        gap == IF cents * n >= 100 * J THEN cents * n - 100 * J
               ELSE 100 * J - cents * n
    IN  /\ loc["loop"].lump_sum = Fraction(J * lump_sum_percent, 100)
        /\ n = installment_weeks * Len(installment_days)
        /\ plan.total = J
        /\ (100 * plan.per_payment[1]) % plan.per_payment[2] = 0
        /\ 2 * gap <= n
        /\ J = 120000 =>
             /\ loc["loop"].lump_sum = Whole(60000)
             /\ n = 156
             /\ plan.per_payment = Fraction(76923, 100)

\* the options of a pool of 120000
C38_Witness ==
  /\ loc["loop"].kind = "payout"
  /\ loc["loop"].jackpot = 120000
  /\ loc["loop"].lump_sum = Whole(60000)
  /\ loc["loop"].installments.num_payments = 156
  /\ loc["loop"].installments.per_payment = Fraction(76923, 100)


\* C39: when the respond calls of the two candidates of a request interleave,
\* the request is resolved once: at most one call stores a winner, and the
\* calls that return "completed" name the same winner
C39_ResolvedOnce ==
  \A i \in 1..Len(coin_flips) :
    LET of_i == { u \in Users : calls[u].request_id = i }
        told == { u \in of_i : calls[u].pc = "returned"
                               /\ calls[u].status = "completed" }
    IN  /\ Cardinality({ u \in of_i : calls[u].assigned }) <= 1
        /\ \A u \in told, v \in told : calls[u].winner_id = calls[v].winner_id

\* C40: with respond calls that run one after the other, a pending request
\* never has the decisions of both candidates recorded, and a winner is
\* stored only in a completed request
C40_PendingHasOneDecision ==
  \A i \in 1..Len(coin_flips) :
    /\ coin_flips[i].status = "pending" => ~Decided(coin_flips[i])
    /\ coin_flips[i].winner_id # 0 =>
         /\ coin_flips[i].status = "completed"
         /\ coin_flips[i].winner_id \in Candidates(coin_flips[i])

\* a request is still pending after two accepted respond calls, with one
\* decision recorded
C40_Witness ==
  /\ response.n = 2
  /\ response.success
  /\ response.status = "pending"
  /\ \E i \in 1..Len(coin_flips) :
       /\ coin_flips[i].status = "pending"
       /\ response.request_id = i
       /\ (coin_flips[i].user1_agreed # 0) # (coin_flips[i].user2_agreed # 0)
====
